---- MODULE Spec2Model ----
(***************************************************************************)
(* State-machine model of the SIG form (src/app.py): the session's         *)
(* configuration store, the handlers of the form tabs that mutate it and   *)
(* the two export functions.  One action models one user interaction: the  *)
(* handler run by the script pass in which the widget reports its new      *)
(* value, followed by the state-changing part of the re-render.            *)
(***************************************************************************)
EXTENDS Integers, Sequences, FiniteSets, TLC

VARIABLES
    entries,                  \* st.session_state.hierarchy_data["entries"]
    hierarchy_timezone,       \* st.session_state.hierarchy_data["timezone"]
    callout_types,            \* st.session_state.callout_types
    job_classifications,      \* st.session_state.job_classifications
    responses,                \* st.session_state.responses (insertion-ordered dict)
    current_tab,              \* st.session_state.current_tab
    reasons_file,             \* callout_reasons.json on disk
    has_reasons_state,        \* 'selected_callout_reasons' in st.session_state
    selected_callout_reasons, \* st.session_state.selected_callout_reasons
    default_callout_reason,   \* st.session_state.default_callout_reason
    reason_checkbox,          \* widget state of the checkboxes keyed reason_<ID>
    callout_reasons,          \* the list loaded (and edited) by the last pass of the reasons tab
    current_page,             \* st.session_state.current_page
    search_term,              \* widget state of the text input keyed search_callout_reasons
    show_selected_only,       \* widget state of the checkbox keyed show_selected_only
    total_reasons,            \* len(filtered_reasons) of the last pass of the reasons tab
    has_event_types,          \* 'event_types' in st.session_state
    event_types,              \* st.session_state.event_types
    chat_history,             \* st.session_state.chat_history
    csv_data,                 \* rows of the last export_to_csv()
    excel_data,               \* outcome of the last export_to_excel()
    lastOp,                   \* the interaction that produced this state
    n_adds,                   \* add-entry actions so far
    n_removes,                \* delete-entry actions so far
    session_id                \* the identifier in the widget keys of the form on display

hierVars    == <<entries, hierarchy_timezone>>
pageVars    == <<current_page, search_term, show_selected_only, total_reasons>>
reasonVars  == <<reasons_file, has_reasons_state, selected_callout_reasons,
                 default_callout_reason, reason_checkbox, callout_reasons,
                 current_page, search_term, show_selected_only, total_reasons>>
eventVars   == <<has_event_types, event_types>>
outVars     == <<csv_data, excel_data>>
countVars   == <<n_adds, n_removes>>
\* the configuration store: everything the session keeps between passes
storeVars   == <<entries, hierarchy_timezone, callout_types, job_classifications,
                 responses, has_reasons_state, selected_callout_reasons,
                 default_callout_reason, has_event_types, event_types, chat_history>>
vars        == <<entries, hierarchy_timezone, callout_types, job_classifications,
                 responses, current_tab, reasons_file, has_reasons_state,
                 selected_callout_reasons, default_callout_reason, reason_checkbox,
                 callout_reasons, current_page, search_term, show_selected_only,
                 total_reasons, has_event_types, event_types, chat_history,
                 csv_data, excel_data, lastOp, n_adds, n_removes, session_id>>

(***************************************************************************)
(* Bounds of the model.                                                    *)
(***************************************************************************)
MaxAdds == 2          \* add-entry actions in one run

(***************************************************************************)
(* Python strings, lists and dicts.                                        *)
(***************************************************************************)
Range(s) == {s[i] : i \in 1..Len(s)}

CharAt(s, i) == SubSeq(s, i, i)

\* sub in s
StrContains(s, sub) ==
    \E i \in 1..(Len(s) - Len(sub) + 1) : SubSeq(s, i, i + Len(sub) - 1) = sub

\* s.startswith(p)
StartsWith(s, p) == Len(s) >= Len(p) /\ SubSeq(s, 1, Len(p)) = p

RECURSIVE StrReplaceChar(_, _, _)
\* s.replace(a, b) for one-character a
StrReplaceChar(s, a, b) ==
    IF Len(s) = 0 THEN ""
    ELSE (IF CharAt(s, 1) = a THEN b ELSE CharAt(s, 1))
         \o StrReplaceChar(SubSeq(s, 2, Len(s)), a, b)

UpperChars == "ABCDEFGHIJKLMNOPQRSTUVWXYZ"
LowerChars == "abcdefghijklmnopqrstuvwxyz"

LowerChar(c) ==
    IF \E i \in 1..Len(UpperChars) : CharAt(UpperChars, i) = c
    THEN CharAt(LowerChars, CHOOSE i \in 1..Len(UpperChars) : CharAt(UpperChars, i) = c)
    ELSE c

RECURSIVE StrLower(_)
\* s.lower()
StrLower(s) ==
    IF Len(s) = 0 THEN ""
    ELSE LowerChar(CharAt(s, 1)) \o StrLower(SubSeq(s, 2, Len(s)))

\* position of the first occurrence of the one-character string c in s
FirstIndex(s, c) == CHOOSE i \in 1..Len(s) :
                        /\ CharAt(s, i) = c
                        /\ \A j \in 1..(i - 1) : CharAt(s, j) # c

\* s.split(c, 1), for a string s that contains c
StrSplit1(s, c) == <<SubSeq(s, 1, FirstIndex(s, c) - 1),
                     SubSeq(s, FirstIndex(s, c) + 1, Len(s))>>

RECURSIVE StrJoin(_, _)
\* sep.join(list)
StrJoin(list, sep) ==
    IF Len(list) = 0 THEN ""
    ELSE IF Len(list) = 1 THEN list[1]
    ELSE list[1] \o sep \o StrJoin(Tail(list), sep)

\* [x for x in list if x]
NonEmpty(list) == SelectSeq(list, LAMBDA x : x # "")

\* list.pop(i), with the 1-based position i
ListPopSkipLast(list, i) ==
    IF i < Len(list) THEN SubSeq(list, 1, i - 1) \o SubSeq(list, i + 1, Len(list))
    ELSE list
ListPopNoIndex(list, i) == SubSeq(list, 1, Len(list) - 1)
ListPop(list, i) == SubSeq(list, 1, i - 1) \o SubSeq(list, i + 1, Len(list))

\* An insertion-ordered dict is a sequence of [k, v] items with distinct keys.
DictKeys(d) == [i \in 1..Len(d) |-> d[i].k]
DictHas(d, key) == \E i \in 1..Len(d) : d[i].k = key
DictGet(d, key, dflt) ==
    IF DictHas(d, key) THEN d[CHOOSE i \in 1..Len(d) : d[i].k = key].v ELSE dflt
\* writes val under every key
DictSetEveryKey(d, key, val) ==
    IF DictHas(d, key)
    THEN [i \in 1..Len(d) |-> [k |-> d[i].k, v |-> val]]
    ELSE Append(d, [k |-> key, v |-> val])

\* d[key] = val
DictSet(d, key, val) ==
    IF DictHas(d, key)
    THEN [i \in 1..Len(d) |-> IF d[i].k = key THEN [k |-> key, v |-> val] ELSE d[i]]
    ELSE Append(d, [k |-> key, v |-> val])

(***************************************************************************)
(* The location hierarchy.                                                 *)
(***************************************************************************)
NumCodes == 5

Labels == <<"Parent Company", "Business Unit", "Division", "OpCenter">>

DefaultTimezone == "ET / CT / MT / AZ / PT"

\* the six callout types written out in every entry literal
DefaultCalloutTypes == <<"Normal", "All Hands on Deck", "Fill Shift", "Travel",
                         "Notification", "Notification (No Response)">>

BlankCalloutTypeMap ==
    [i \in 1..Len(DefaultCalloutTypes) |-> [k |-> DefaultCalloutTypes[i], v |-> FALSE]]

\* the entry literal of the add actions; a sub-branch add fills in the
\* inherited levels and the parent's time zone
NewEntryWithoutTimezone(l1, l2, l3, tz) ==
    [level1 |-> l1, level2 |-> l2, level3 |-> l3, level4 |-> "",
     timezone |-> "",
     codes |-> [j \in 1..NumCodes |-> ""],
     callout_types |-> BlankCalloutTypeMap,
     callout_reasons |-> ""]

NewEntry(l1, l2, l3, tz) ==
    [level1 |-> l1, level2 |-> l2, level3 |-> l3, level4 |-> "",
     timezone |-> tz,
     codes |-> [j \in 1..NumCodes |-> ""],
     callout_types |-> BlankCalloutTypeMap,
     callout_reasons |-> ""]

BlankEntry == NewEntry("", "", "", "")

BlankJob == [type |-> "", title |-> "", ids |-> [j \in 1..NumCodes |-> ""], recording |-> ""]

Level(e, k) == CASE k = 1 -> e.level1 [] k = 2 -> e.level2
                 [] k = 3 -> e.level3 [] k = 4 -> e.level4

Op(name, idx, arg) == [op |-> name, idx |-> idx, arg |-> arg]


(***************************************************************************)
(* The persisted callout reasons.                                          *)
(***************************************************************************)
Reason(id, label, use, dflt, verbiage) ==
    [ID |-> id, Label |-> label, Use |-> use, Default |-> dflt, Verbiage |-> verbiage]

\* the built-in list returned when callout_reasons.json cannot be loaded
FallbackReasons ==
    << Reason("0", "", "x", "x", "n/a"),
       Reason("1001", "Broken Line", "x", "", "Pre-recorded"),
       Reason("1002", "Depression Road", "x", "", "Pre-recorded"),
       Reason("1003", "Depression Yard", "x", "", "Pre-recorded"),
       Reason("1007", "Emergency", "x", "", "Pre-recorded"),
       Reason("1008", "Odor", "x", "", "Pre-recorded") >>

\* open('callout_reasons.json', 'r') raises when the file is missing or
\* cannot be read
FileOpens(file) == file.state \notin {"missing", "unreadable"}

\* json.load raises when the text is not valid JSON
JsonLoads(file) == file.state = "json"

\* returns an empty list when the file cannot be loaded
LoadCalloutReasonsOrNothing ==
    IF FileOpens(reasons_file) /\ JsonLoads(reasons_file) THEN reasons_file.data ELSE <<>>

\* every exception of the open or of the load is caught and the built-in
\* list returned
load_callout_reasons ==
    IF FileOpens(reasons_file) /\ JsonLoads(reasons_file)
    THEN reasons_file.data
    ELSE FallbackReasons

ReasonIDs(list) == [i \in 1..Len(list) |-> list[i].ID]

(***************************************************************************)
(* Values of the response store: text of a text area, or the boolean of a  *)
(* matrix checkbox.                                                        *)
(***************************************************************************)
StrVal(s)  == [kind |-> "str",  s |-> s,  b |-> FALSE]
BoolVal(b) == [kind |-> "bool", s |-> "", b |-> b]
Truthy(v)  == IF v.kind = "bool" THEN v.b ELSE v.s # ""
PyStr(v)   == IF v.kind = "bool" THEN (IF v.b THEN "True" ELSE "False") ELSE v.s

(***************************************************************************)
(* export_to_csv: the rows handed to the DataFrame, in order.              *)
(***************************************************************************)
Row(tab, section, response) == [Tab |-> tab, Section |-> section, Response |-> response]

RECURSIVE Flatten(_)
Flatten(lists) == IF Len(lists) = 0 THEN <<>> ELSE Head(lists) \o Flatten(Tail(lists))

\* exports every entry, blank ones included
HasAnyLevelOrBlank(e) == TRUE
HasAnyLevel(e) == e.level1 # "" \/ e.level2 # "" \/ e.level3 # "" \/ e.level4 # ""

\* the names of the enabled callout types of an entry, in dict order
EnabledTypes(e) ==
    DictKeys(SelectSeq(e.callout_types, LAMBDA it : it.v))

\* falls back to the time zone the session started with
ResolvedTimezoneInitial(e) == IF e.timezone # "" THEN e.timezone ELSE DefaultTimezone

ResolvedTimezone(e) == IF e.timezone # "" THEN e.timezone ELSE hierarchy_timezone

\* str(labels) of a list of strings
CsvLabelsRow ==
    Row("Location Hierarchy", "Labels", "['" \o StrJoin(Labels, "', '") \o "']")

\* numbers the entries from 0, as enumerate() does
CsvLocationRowZeroBased(e, i) ==
    Row("Location Hierarchy",
        "Location Entry #" \o ToString(i - 1),
        "Level 1: " \o e.level1 \o ", Level 2: " \o e.level2
          \o ", Level 3: " \o e.level3 \o ", Level 4: " \o e.level4
          \o ", Time Zone: " \o ResolvedTimezone(e)
          \o ", Codes: " \o StrJoin(NonEmpty(e.codes), ", "))

CsvLocationRow(e, i) ==
    Row("Location Hierarchy",
        "Location Entry #" \o ToString(i),
        "Level 1: " \o e.level1 \o ", Level 2: " \o e.level2
          \o ", Level 3: " \o e.level3 \o ", Level 4: " \o e.level4
          \o ", Time Zone: " \o ResolvedTimezone(e)
          \o ", Codes: " \o StrJoin(NonEmpty(e.codes), ", "))

CsvTypesRow(e) ==
    Row("Matrix of Locations and CO Types", e.level4, StrJoin(EnabledTypes(e), ", "))

CsvReasonsRow(e) ==
    Row("Matrix of Locations and Reasons", e.level4, e.callout_reasons)

\* appends the matrix row of an entry before its location row
CsvEntryRowsTypesFirst(e, i) ==
    IF HasAnyLevel(e)
    THEN (IF e.level4 # "" /\ StrJoin(EnabledTypes(e), ", ") # ""
          THEN <<CsvTypesRow(e)>> ELSE <<>>)
         \o <<CsvLocationRow(e, i)>>
         \o (IF e.level4 # "" /\ e.callout_reasons # ""
             THEN <<CsvReasonsRow(e)>> ELSE <<>>)
    ELSE <<>>

\* the rows appended by one iteration of the loop over the entries
CsvEntryRows(e, i) ==
    IF HasAnyLevel(e)
    THEN <<CsvLocationRow(e, i)>>
         \o (IF e.level4 # "" /\ StrJoin(EnabledTypes(e), ", ") # ""
             THEN <<CsvTypesRow(e)>> ELSE <<>>)
         \o (IF e.level4 # "" /\ e.callout_reasons # ""
             THEN <<CsvReasonsRow(e)>> ELSE <<>>)
    ELSE <<>>

CsvHierarchyRows == Flatten([i \in 1..Len(entries) |-> CsvEntryRows(entries[i], i)])

CsvJobRow(job) ==
    Row("Job Classifications",
        job.title \o " (" \o job.type \o ")",
        "IDs: " \o StrJoin(NonEmpty(job.ids), ", ") \o ", Recording: "
          \o (IF job.recording # "" THEN job.recording ELSE "Same as title"))

CsvJobRows ==
    Flatten([i \in 1..Len(job_classifications) |->
                IF job_classifications[i].title # ""
                THEN <<CsvJobRow(job_classifications[i])>> ELSE <<>>])

ReasonText(r) == r.ID \o ": " \o r.Label

SelectedReasons(list) ==
    SelectSeq(list, LAMBDA r : r.ID \in Range(selected_callout_reasons))

CsvReasonRows ==
    IF has_reasons_state
    THEN LET list == load_callout_reasons
             dflt == SelectSeq(list, LAMBDA r : r.ID = default_callout_reason)
         IN  <<Row("Callout Reasons", "Selected Reasons",
                   StrJoin([i \in 1..Len(SelectedReasons(list)) |->
                               ReasonText(SelectedReasons(list)[i])], ", "))>>
             \o (IF default_callout_reason # "" /\ Len(dflt) > 0
                 THEN <<Row("Callout Reasons", "Default Reason", ReasonText(dflt[1]))>>
                 ELSE <<>>)
    ELSE <<>>

\* the filter of the loop over the responses: no matrix cell, no reason
\* checkbox, no empty value, and a key that contains an underscore
OtherKeyExported(key, value) ==
    /\ ~StartsWith(key, "matrix_")
    /\ ~StartsWith(key, "reason_")
    /\ Truthy(value)
    /\ StrContains(key, "_")

OtherRow(item) ==
    Row(StrSplit1(item.k, "_")[1], StrSplit1(item.k, "_")[2], PyStr(item.v))

OtherRows ==
    Flatten([i \in 1..Len(responses) |->
                IF OtherKeyExported(responses[i].k, responses[i].v)
                THEN <<OtherRow(responses[i])>> ELSE <<>>])

export_to_csv ==
    <<CsvLabelsRow>> \o CsvHierarchyRows \o CsvJobRows \o CsvReasonRows \o OtherRows


(***************************************************************************)
(* export_to_excel: the sheets written, in order, each with its rows; or   *)
(* the exception that ends it.                                             *)
(***************************************************************************)
Sheet(name, rows) == [name |-> name, rows |-> rows]

XlsLocationRow(e) ==
    <<e.level1, e.level2, e.level3, e.level4, ResolvedTimezone(e)>> \o e.codes

XlsLocationData ==
    Flatten([i \in 1..Len(entries) |->
                IF HasAnyLevel(entries[i]) THEN <<XlsLocationRow(entries[i])>> ELSE <<>>])

XMark(b) == IF b THEN "X" ELSE ""

\* one column per hard-coded callout type
XlsMatrixRow(e) ==
    <<e.level4>> \o [i \in 1..Len(DefaultCalloutTypes) |->
                        XMark(DictGet(e.callout_types, DefaultCalloutTypes[i], FALSE))]

XlsMatrixData ==
    Flatten([i \in 1..Len(entries) |->
                IF entries[i].level4 # "" THEN <<XlsMatrixRow(entries[i])>> ELSE <<>>])

XlsReasonsData ==
    Flatten([i \in 1..Len(entries) |->
                IF entries[i].level4 # "" /\ entries[i].callout_reasons # ""
                THEN << <<entries[i].level1, entries[i].level2, entries[i].level3,
                          entries[i].level4, entries[i].callout_reasons>> >>
                ELSE <<>>])

XlsJobData ==
    Flatten([i \in 1..Len(job_classifications) |->
                IF job_classifications[i].title # ""
                THEN << <<job_classifications[i].type, job_classifications[i].title>>
                        \o job_classifications[i].ids
                        \o <<job_classifications[i].recording>> >>
                ELSE <<>>])

XlsCalloutReasonData ==
    IF has_reasons_state /\ Len(SelectedReasons(load_callout_reasons)) > 0
    THEN [i \in 1..Len(load_callout_reasons) |->
            LET r == load_callout_reasons[i]
            IN  <<r.ID, r.Label,
                  XMark(r.ID \in Range(selected_callout_reasons)),
                  XMark(r.ID = default_callout_reason),
                  r.Verbiage>>]
    ELSE <<>>

XlsOtherData ==
    [i \in 1..Len(OtherRows) |->
        <<OtherRows[i].Tab, OtherRows[i].Section, OtherRows[i].Response>>]

\* the sheet is written only when it has rows
SheetIf(name, rows) == IF Len(rows) > 0 THEN <<Sheet(name, rows)>> ELSE <<>>

\* names the callout-type matrix sheet 'Matrix of Callout Types'
XlsSheetsLongName ==
    SheetIf("Location Hierarchy", XlsLocationData)
    \o SheetIf("Matrix of Callout Types", XlsMatrixData)
    \o SheetIf("Matrix of Reasons", XlsReasonsData)
    \o SheetIf("Job Classifications", XlsJobData)
    \o SheetIf("Callout Reasons", XlsCalloutReasonData)
    \o SheetIf("Other Configurations", XlsOtherData)

XlsSheets ==
    SheetIf("Location Hierarchy", XlsLocationData)
    \o SheetIf("Matrix of CO Types", XlsMatrixData)
    \o SheetIf("Matrix of Reasons", XlsReasonsData)
    \o SheetIf("Job Classifications", XlsJobData)
    \o SheetIf("Callout Reasons", XlsCalloutReasonData)
    \o SheetIf("Other Configurations", XlsOtherData)

\* header_format is bound only inside "if location_data:"; every later
\* sheet formats its header row with it
XlsRaises ==
    /\ Len(XlsLocationData) = 0
    /\ \/ Len(XlsMatrixData) > 0
       \/ Len(XlsReasonsData) > 0
       \/ Len(XlsJobData) > 0
       \/ Len(XlsCalloutReasonData) > 0
       \/ Len(XlsOtherData) > 0

\* the sheets handed to the writer before the function returns or raises:
\* to_excel creates the sheet, the header formatting after it raises
XlsWritten == IF XlsRaises THEN <<Head(XlsSheets)>> ELSE XlsSheets

export_to_excel ==
    IF XlsRaises THEN [done |-> TRUE, raised |-> TRUE, sheets |-> <<>>]
    ELSE [done |-> TRUE, raised |-> FALSE, sheets |-> XlsSheets]

NoExport == [done |-> FALSE, raised |-> FALSE, sheets |-> <<>>]


(***************************************************************************)
(* The initial session: the state after the first pass of main().          *)
(***************************************************************************)
Tabs == <<"Location Hierarchy", "Trouble Locations", "Job Classifications",
          "Callout Reasons", "Event Types", "Callout Type Configuration",
          "Global Configuration Options", "Data and Interfaces", "Additions">>

\* the tabs main() hands to render_generic_tab
GenericTabs == {"Callout Type Configuration", "Global Configuration Options",
                "Data and Interfaces", "Additions"}

InitialEventTypeIDs ==
    <<"1001", "1017", "1018", "1019", "1024", "1030", "1123", "1124", "1153",
      "1188", "1251", "1252", "1327", "1372", "1424", "1500", "1501", "1502">>

InitialEventTypes ==
    [i \in 1..Len(InitialEventTypeIDs) |-> [id |-> InitialEventTypeIDs[i], use |-> TRUE]]

NoWidgets == [id \in {} |-> FALSE]

InitWith(file) ==
    /\ entries = <<BlankEntry>>
    /\ hierarchy_timezone = DefaultTimezone
    /\ callout_types = DefaultCalloutTypes
    /\ job_classifications = <<BlankJob>>
    /\ responses = <<>>
    /\ current_tab = "Location Hierarchy"
    /\ reasons_file = file
    /\ has_reasons_state = FALSE
    /\ selected_callout_reasons = <<>>
    /\ default_callout_reason = ""
    /\ reason_checkbox = NoWidgets
    /\ callout_reasons = <<>>
    /\ current_page = 0
    /\ search_term = ""
    /\ show_selected_only = FALSE
    /\ total_reasons = 0
    /\ has_event_types = FALSE
    /\ event_types = <<>>
    /\ chat_history = <<>>
    /\ csv_data = <<>>
    /\ excel_data = NoExport
    /\ lastOp = Op("init", 0, "")
    /\ n_adds = 0
    /\ n_removes = 0
    /\ session_id = 0

\* callout_reasons.json is not readable: load_callout_reasons falls back
MissingFile == [state |-> "missing", data |-> <<>>]

\* it exists but the process may not read it
UnreadableFile == [state |-> "unreadable", data |-> <<>>]

\* it is readable but its text is not JSON
InvalidJsonFile == [state |-> "invalid_json", data |-> <<>>]

Init == InitWith(MissingFile)

\* the download link of an export is shown only by the pass that made it
\* str(uuid.uuid4())[:8] of a render: an identifier other than the one of
\* the render before.  Two tokens stand for the identifiers.
FreshId(id) == 1 - id

\* every pass renders the form again, its widgets keyed by a new session_id
NewRender == session_id' = FreshId(session_id)

ResetOut == csv_data' = <<>> /\ excel_data' = NoExport /\ NewRender

(***************************************************************************)
(* render_location_hierarchy_form.                                         *)
(***************************************************************************)
OnHierarchy == current_tab = "Location Hierarchy"

HierFrame ==
    /\ ResetOut
    /\ UNCHANGED <<callout_types, job_classifications, responses, current_tab,
                   reasonVars, eventVars, chat_history>>

AppendEntry(e) ==
    /\ OnHierarchy
    /\ n_adds < MaxAdds
    /\ entries' = Append(entries, e)
    /\ n_adds' = n_adds + 1
    /\ UNCHANGED <<hierarchy_timezone, n_removes>>
    /\ HierFrame

AddNewLocationEntry ==
    /\ AppendEntry(BlankEntry)
    /\ lastOp' = Op("add_entry", 0, "")

AddBusinessUnit(i) ==
    /\ i \in 1..Len(entries)
    /\ entries[i].level1 # ""
    /\ AppendEntry(NewEntry(entries[i].level1, "", "", entries[i].timezone))
    /\ lastOp' = Op("add_bu", i, "")

AddDivision(i) ==
    /\ i \in 1..Len(entries)
    /\ entries[i].level1 # "" /\ entries[i].level2 # ""
    /\ AppendEntry(NewEntry(entries[i].level1, entries[i].level2, "", entries[i].timezone))
    /\ lastOp' = Op("add_div", i, "")

AddOpCenter(i) ==
    /\ i \in 1..Len(entries)
    /\ entries[i].level1 # "" /\ entries[i].level2 # "" /\ entries[i].level3 # ""
    /\ AppendEntry(NewEntry(entries[i].level1, entries[i].level2, entries[i].level3,
                            entries[i].timezone))
    /\ lastOp' = Op("add_op", i, "")

DeleteEntry(i) ==
    /\ OnHierarchy
    /\ i \in 1..Len(entries)
    /\ entries' = ListPop(entries, i)
    /\ n_removes' = n_removes + 1
    /\ lastOp' = Op("delete_entry", i, "")
    /\ UNCHANGED <<hierarchy_timezone, n_adds>>
    /\ HierFrame

\* an edit of one field of entry i
EditEntry(i, e) ==
    /\ OnHierarchy
    /\ i \in 1..Len(entries)
    /\ e # entries[i]
    /\ entries' = [entries EXCEPT ![i] = e]
    /\ lastOp' = Op("edit_entry", 0, "")
    /\ UNCHANGED <<hierarchy_timezone, countVars>>
    /\ HierFrame

SetLevel(i, k, v) ==
    /\ i \in 1..Len(entries)
    /\ EditEntry(i, CASE k = 1 -> [entries[i] EXCEPT !.level1 = v]
                      [] k = 2 -> [entries[i] EXCEPT !.level2 = v]
                      [] k = 3 -> [entries[i] EXCEPT !.level3 = v]
                      [] k = 4 -> [entries[i] EXCEPT !.level4 = v])

SetEntryTimezone(i, v) ==
    /\ i \in 1..Len(entries)
    /\ EditEntry(i, [entries[i] EXCEPT !.timezone = v])

\* the widgets of the "Configure <level4> Details" expander exist only
\* while level4 is filled in
SetCode(i, j, v) ==
    /\ i \in 1..Len(entries)
    /\ entries[i].level4 # ""
    /\ EditEntry(i, [entries[i] EXCEPT !.codes[j] = v])

SetCalloutType(i, t, b) ==
    /\ i \in 1..Len(entries)
    /\ entries[i].level4 # ""
    /\ EditEntry(i, [entries[i] EXCEPT !.callout_types = DictSet(@, t, b)])

SetCalloutReasons(i, v) ==
    /\ i \in 1..Len(entries)
    /\ entries[i].level4 # ""
    /\ EditEntry(i, [entries[i] EXCEPT !.callout_reasons = v])

SetDefaultTimezone(v) ==
    /\ OnHierarchy
    /\ v # hierarchy_timezone
    /\ hierarchy_timezone' = v
    /\ lastOp' = Op("edit_default_tz", 0, "")
    /\ UNCHANGED <<entries, countVars>>
    /\ HierFrame

(***************************************************************************)
(* The widgets of the hierarchy form and the delivery of a user action.    *)
(* The browser reports the action under the key the widget had in the      *)
(* render on display; the rerun builds its widgets under the keys of its    *)
(* own session_id, and a widget reacts to what is reported under its key.   *)
(***************************************************************************)
\* the widgets of the form: one button above the rows, the others per row
HierWidgets == {"add_loc_entry", "del", "add_bu", "add_div", "add_op",
                "lvl1", "lvl2", "lvl3", "lvl4", "tz", "code"}

\* key=f"<widget>_{i}_{session_id}", rows counted from 0
WidgetKey(w, i, id) ==
    CASE w = "add_loc_entry" -> w \o "_" \o ToString(id)
      [] w = "code" -> w \o "_" \o ToString(i - 1) \o "_0_" \o ToString(id)
      [] OTHER -> w \o "_" \o ToString(i - 1) \o "_" \o ToString(id)

\* the widget is drawn for row i
WidgetShown(w, i) ==
    CASE w = "add_bu" -> entries[i].level1 # ""
      [] w = "add_div" -> entries[i].level1 # "" /\ entries[i].level2 # ""
      [] w = "add_op" -> entries[i].level1 # "" /\ entries[i].level2 # ""
                           /\ entries[i].level3 # ""
      [] w = "code" -> entries[i].level4 # ""
      [] OTHER -> TRUE

\* what the user types into a field
TypedInto(w) ==
    CASE w = "lvl1" -> "Acme" [] w = "lvl2" -> "East" [] w = "lvl3" -> "Ops"
      [] w = "lvl4" -> "Plant1" [] w = "tz" -> "CT" [] w = "code" -> "A1"
      [] OTHER -> ""

\* the entries after the code behind widget w of row i has run
HandlerEffect(w, i) ==
    LET e == entries[i]
    IN  CASE w = "add_loc_entry" -> Append(entries, BlankEntry)
          [] w = "del" -> ListPop(entries, i)
          [] w = "add_bu" -> Append(entries, NewEntry(e.level1, "", "", e.timezone))
          [] w = "add_div" -> Append(entries, NewEntry(e.level1, e.level2, "", e.timezone))
          [] w = "add_op" ->
                Append(entries, NewEntry(e.level1, e.level2, e.level3, e.timezone))
          [] w = "lvl1" -> [entries EXCEPT ![i].level1 = TypedInto(w)]
          [] w = "lvl2" -> [entries EXCEPT ![i].level2 = TypedInto(w)]
          [] w = "lvl3" -> [entries EXCEPT ![i].level3 = TypedInto(w)]
          [] w = "lvl4" -> [entries EXCEPT ![i].level4 = TypedInto(w)]
          [] w = "tz" -> [entries EXCEPT ![i].timezone = TypedInto(w)]
          [] w = "code" -> [entries EXCEPT ![i].codes[1] = TypedInto(w)]

\* The user acts on widget w of row i of the form on display, and the rerun
\* runs.  The widget of the rerun sees the action only under its own key: a
\* button returns True then, a field returns what was typed; otherwise the
\* button returns False and the field returns its value= argument.
UserAction(w, i) ==
    /\ OnHierarchy
    /\ w \in HierWidgets
    /\ i \in 1..Len(entries)
    /\ w = "add_loc_entry" => i = 1
    /\ WidgetShown(w, i)
    /\ LET reported == WidgetKey(w, i, session_id)
           rendered == WidgetKey(w, i, FreshId(session_id))
           seen     == reported = rendered
       IN  /\ entries' = IF seen THEN HandlerEffect(w, i) ELSE entries
           /\ n_adds' = IF seen /\ w \in {"add_loc_entry", "add_bu", "add_div", "add_op"}
                        THEN n_adds + 1 ELSE n_adds
           /\ n_removes' = IF seen /\ w = "del" THEN n_removes + 1 ELSE n_removes
    /\ lastOp' = Op("user_action", i, w)
    /\ UNCHANGED hierarchy_timezone
    /\ HierFrame

(***************************************************************************)
(* render_matrix_locations_callout_types.  main() has no tab that calls    *)
(* it; its handlers are modelled as operations on the store.               *)
(***************************************************************************)
MatrixKey(location, ct) ==
    StrReplaceChar("matrix_" \o location \o "_" \o ct, " ", "_")

RECURSIVE MatrixDefaults(_, _)
\* "if key not in responses: responses[key] = False" for every key of keys
MatrixDefaults(resp, keys) ==
    IF Len(keys) = 0 THEN resp
    ELSE MatrixDefaults(IF DictHas(resp, Head(keys)) THEN resp
                        ELSE DictSet(resp, Head(keys), BoolVal(FALSE)),
                        Tail(keys))

\* the keys the matrix loop visits: Level-4 entries by callout types
MatrixKeys(es, types) ==
    Flatten([i \in 1..Len(es) |->
                IF es[i].level4 # ""
                THEN [j \in 1..Len(types) |-> MatrixKey(es[i].level4, types[j])]
                ELSE <<>>])

MatrixFrame ==
    /\ ResetOut
    /\ UNCHANGED <<hierVars, job_classifications, current_tab, reasonVars, eventVars,
                   chat_history, countVars>>

AddCalloutType(name) ==
    /\ name # ""
    /\ name \notin Range(callout_types)
    /\ callout_types' = Append(callout_types, name)
    /\ responses' = MatrixDefaults(responses, MatrixKeys(entries, callout_types'))
    /\ lastOp' = Op("add_type", 0, name)
    /\ MatrixFrame

RemoveCalloutType(idx) ==
    /\ idx \in 1..Len(callout_types)
    /\ callout_types' = ListPop(callout_types, idx)
    /\ responses' = MatrixDefaults(responses, MatrixKeys(entries, callout_types'))
    /\ lastOp' = Op("remove_type", idx, "")
    /\ MatrixFrame

\* another displayed cell is stored under the key of cell (i, j)
MatrixCellShared(i, j) ==
    \E i2 \in 1..Len(entries) : \E j2 \in 1..Len(callout_types) :
        /\ <<i2, j2>> # <<i, j>>
        /\ entries[i2].level4 # ""
        /\ MatrixKey(entries[i2].level4, callout_types[j2])
               = MatrixKey(entries[i].level4, callout_types[j])

\* Every displayed cell writes its checkbox value under its response key, in
\* display order; of the cells that share a key the last one displayed wins:
\* the clicked cell with the toggled value, or another one with the value it
\* still shows.
MatrixToggle(i, j) ==
    /\ i \in 1..Len(entries)
    /\ entries[i].level4 # ""
    /\ j \in 1..Len(callout_types)
    /\ LET key  == MatrixKey(entries[i].level4, callout_types[j])
           resp == MatrixDefaults(responses, MatrixKeys(entries, callout_types))
           toggled == DictSet(resp, key, BoolVal(~DictGet(resp, key, BoolVal(FALSE)).b))
       IN  \/ responses' = toggled
           \/ MatrixCellShared(i, j) /\ responses' = resp
    /\ lastOp' = Op("matrix_toggle", 0, "")
    /\ UNCHANGED callout_types
    /\ MatrixFrame


(***************************************************************************)
(* render_job_classifications.                                             *)
(***************************************************************************)
OnJobs == current_tab = "Job Classifications"

JobFrame ==
    /\ ResetOut
    /\ UNCHANGED <<hierVars, callout_types, responses, current_tab, reasonVars,
                   eventVars, chat_history, countVars>>

AddJobClassification ==
    /\ OnJobs
    /\ job_classifications' = Append(job_classifications, BlankJob)
    /\ lastOp' = Op("add_job", 0, "")
    /\ JobFrame

RemoveJobClassification(i) ==
    /\ OnJobs
    /\ i \in 1..Len(job_classifications)
    /\ job_classifications' = ListPop(job_classifications, i)
    /\ lastOp' = Op("remove_job", i, "")
    /\ JobFrame

EditJob(i, job) ==
    /\ OnJobs
    /\ i \in 1..Len(job_classifications)
    /\ job # job_classifications[i]
    /\ job_classifications' = [job_classifications EXCEPT ![i] = job]
    /\ lastOp' = Op("edit_job", 0, "")
    /\ JobFrame

SetJobType(i, v) ==
    /\ i \in 1..Len(job_classifications)
    /\ EditJob(i, [job_classifications[i] EXCEPT !.type = v])

SetJobTitle(i, v) ==
    /\ i \in 1..Len(job_classifications)
    /\ EditJob(i, [job_classifications[i] EXCEPT !.title = v])

SetJobId(i, j, v) ==
    /\ i \in 1..Len(job_classifications)
    /\ EditJob(i, [job_classifications[i] EXCEPT !.ids[j] = v])

SetJobRecording(i, v) ==
    /\ i \in 1..Len(job_classifications)
    /\ EditJob(i, [job_classifications[i] EXCEPT !.recording = v])

(***************************************************************************)
(* render_event_types_form.                                                *)
(***************************************************************************)
OnEvents == current_tab = "Event Types" /\ has_event_types

EventFrame ==
    /\ ResetOut
    /\ UNCHANGED <<hierVars, callout_types, job_classifications, responses, current_tab,
                   reasonVars, has_event_types, chat_history, countVars>>

Digits == <<"0", "1", "2", "3", "4", "5", "6", "7", "8", "9">>

\* int() accepts s
IsNumeric(s) == Len(s) > 0 /\ \A i \in 1..Len(s) : CharAt(s, i) \in Range(Digits)

RECURSIVE StrToInt(_)
\* int(s) of a string of decimal digits
StrToInt(s) ==
    IF Len(s) = 0 THEN 0
    ELSE 10 * StrToInt(SubSeq(s, 1, Len(s) - 1))
         + ((CHOOSE d \in 1..10 : Digits[d] = CharAt(s, Len(s))) - 1)

SeqMax(ns) == CHOOSE n \in Range(ns) : \A m \in Range(ns) : m <= n

\* numbers the new event type after the number of event types
NewEventIdFromCount(events) == ToString(1001 + Len(events))

\* new_id = str(max(existing_ids) + 1) if existing_ids else "2000"
NewEventId(events) ==
    LET existing_ids == [i \in 1..Len(events) |-> StrToInt(events[i].id)]
    IN  IF Len(existing_ids) > 0 THEN ToString(SeqMax(existing_ids) + 1) ELSE "2000"

\* int(event["id"]) raises on an ID that is not a number
AddEventRaises == \E i \in 1..Len(event_types) : ~IsNumeric(event_types[i].id)

AddNewEventType ==
    /\ OnEvents
    /\ event_types' = IF AddEventRaises THEN event_types
                      ELSE Append(event_types, [id |-> NewEventId(event_types), use |-> FALSE])
    /\ lastOp' = Op("add_event", IF AddEventRaises THEN 1 ELSE 0, "")
    /\ EventFrame

\* positions in event_types of the rows on display
FilteredEventIdx(show_active_only) ==
    SelectSeq([i \in 1..Len(event_types) |-> i],
              LAMBDA i : ~show_active_only \/ event_types[i].use)

\* the Use checkbox of displayed row r
SetEventUse(r, b, show_active_only) ==
    /\ OnEvents
    /\ r \in 1..Len(FilteredEventIdx(show_active_only))
    /\ LET i == FilteredEventIdx(show_active_only)[r]
       IN  /\ event_types[i].use # b
           /\ event_types' = [event_types EXCEPT ![i].use = b]
    /\ lastOp' = Op("edit_event", 0, "")
    /\ EventFrame

\* the remove button of displayed row r: event_types.pop(i) with i the
\* position of the row among the rows on display
RemoveEventType(r, show_active_only) ==
    /\ OnEvents
    /\ r \in 1..Len(FilteredEventIdx(show_active_only))
    /\ event_types' = ListPop(event_types, r)
    /\ lastOp' = Op("remove_event", r, IF show_active_only THEN "active" ELSE "all")
    /\ EventFrame

(***************************************************************************)
(* render_callout_reasons_form.                                            *)
(***************************************************************************)
OnReasons == current_tab = "Callout Reasons"

\* list.remove(x): drops the first occurrence
ListRemove(list, x) ==
    IF x \in Range(list)
    THEN ListPop(list, CHOOSE i \in 1..Len(list) :
                           list[i] = x /\ \A j \in 1..(i - 1) : list[j] # x)
    ELSE list

\* the value a reason's checkbox returns: its widget state when it has one,
\* else the default value passed to it
IsChecked(w, sel, id) == IF id \in DOMAIN w THEN w[id] ELSE id \in Range(sel)

RECURSIVE SyncSelected(_, _, _)
\* the loop over the displayed reasons: the selection follows the checkboxes
SyncSelected(sel, ids, w) ==
    IF Len(ids) = 0 THEN sel
    ELSE LET id == Head(ids)
             checked == IsChecked(w, sel, id)
         IN  SyncSelected(IF checked /\ id \notin Range(sel) THEN Append(sel, id)
                          ELSE IF ~checked /\ id \in Range(sel) THEN ListRemove(sel, id)
                          ELSE sel,
                          Tail(ids), w)

\* selected_callout_reasons as initialised from the loaded list
InitialSelected(list) == ReasonIDs(SelectSeq(list, LAMBDA r : r.Use = "x"))

\* default_callout_reason as initialised from the loaded list
InitialDefault(list) ==
    LET d == ReasonIDs(SelectSeq(list, LAMBDA r : r.Default = "x"))
    IN  IF Len(d) > 0 THEN d[1] ELSE ""

RECURSIVE StrStrip(_)
\* s.strip() of blanks
StrStrip(s) ==
    IF Len(s) > 0 /\ CharAt(s, 1) = " " THEN StrStrip(SubSeq(s, 2, Len(s)))
    ELSE IF Len(s) > 0 /\ CharAt(s, Len(s)) = " " THEN StrStrip(SubSeq(s, 1, Len(s) - 1))
    ELSE s

\* the search filter, then the selected-only filter
FilteredReasons(list, search, show, sel) ==
    LET term == StrLower(StrStrip(search))
        found == IF search # ""
                 THEN SelectSeq(list, LAMBDA r : \/ StrContains(StrLower(r.ID), term)
                                                 \/ StrContains(StrLower(r.Label), term))
                 ELSE list
    IN  IF show THEN SelectSeq(found, LAMBDA r : r.ID \in Range(sel)) ELSE found

items_per_page == 15

TotalPages(total) ==
    LET pages == (total + items_per_page - 1) \div items_per_page
    IN  IF pages > 1 THEN pages ELSE 1

\* keeps the page from going below 0 only
ClampPageAtZero(page, total_pages) == IF page > 0 THEN page ELSE 0

\* "Cap current page to valid range"
ClampPage(page, total_pages) ==
    LET capped == IF page < total_pages - 1 THEN page ELSE total_pages - 1
    IN  IF capped > 0 THEN capped ELSE 0

\* filtered_reasons[start_idx:end_idx]
PageSlice(filtered, page) ==
    LET start_idx == page * items_per_page
        end_idx == IF start_idx + items_per_page < Len(filtered)
                   THEN start_idx + items_per_page ELSE Len(filtered)
    IN  SubSeq(filtered, start_idx + 1, end_idx)

\* the selection a pass starts from
PassStart(has, sel) == IF has THEN sel ELSE InitialSelected(load_callout_reasons)

\* the reasons a pass displays, given the selection it starts from
PassShown(sel, page, search, show) ==
    LET filtered == FilteredReasons(load_callout_reasons, search, show, sel)
    IN  ReasonIDs(PageSlice(filtered, ClampPage(page, TotalPages(Len(filtered)))))

\* the selection after a pass of the first page without filters
PassSelected(has, sel, w) ==
    SyncSelected(PassStart(has, sel), PassShown(PassStart(has, sel), 0, "", FALSE), w)

PassDefault(has, dflt) ==
    IF has THEN dflt ELSE InitialDefault(load_callout_reasons)

\* One full pass of the tab with the widget states w, from the selection sel,
\* the page and the filters: the filtered count, the clamped page, the
\* selection after the checkbox loop and the widget states of the displayed
\* reasons.
RenderReasons(has, sel, w, page, search, show) ==
    LET start == PassStart(has, sel)
        filtered == FilteredReasons(load_callout_reasons, search, show, start)
        shown == PassShown(start, page, search, show)
    IN  /\ total_reasons' = Len(filtered)
        /\ current_page' = ClampPage(page, TotalPages(Len(filtered)))
        /\ search_term' = search
        /\ show_selected_only' = show
        /\ selected_callout_reasons' = SyncSelected(start, shown, w)
        /\ reason_checkbox' =
               [id \in Range(shown) |-> id \in Range(selected_callout_reasons')]

ReasonsFrame ==
    /\ ResetOut
    /\ UNCHANGED <<hierVars, callout_types, job_classifications, responses, current_tab,
                   eventVars, chat_history, countVars>>

\* the user ticks or unticks the checkbox of reason id
ToggleReason(id) ==
    /\ OnReasons
    /\ id \in DOMAIN reason_checkbox
    /\ RenderReasons(TRUE, selected_callout_reasons, [reason_checkbox EXCEPT ![id] = ~@],
                     current_page, search_term, show_selected_only)
    /\ callout_reasons' = load_callout_reasons
    /\ lastOp' = Op("toggle_reason", 0, id)
    /\ UNCHANGED <<reasons_file, has_reasons_state, default_callout_reason>>
    /\ ReasonsFrame

\* "Clear All Selections", and the pass of the rerun it asks for.  The
\* button sits above the checkboxes, so the pass it interrupts renders none
\* of them: the rerun finds their states kept, or dropped where the runtime
\* discards the state of a widget that a pass did not render.
ClearAllSelections ==
    /\ OnReasons
    /\ \E kept \in BOOLEAN :
          /\ RenderReasons(TRUE, <<>>, IF kept THEN reason_checkbox ELSE NoWidgets,
                           current_page, search_term, show_selected_only)
          /\ lastOp' = Op("clear_all", 0, IF kept THEN "kept" ELSE "dropped")
    /\ callout_reasons' = load_callout_reasons
    /\ UNCHANGED <<reasons_file, has_reasons_state, default_callout_reason>>
    /\ ReasonsFrame

\* the flags written by "r['Default?'] = 'x' if r['ID'] == reason_id else ''"
MarkDefaultAlso(list, id) ==
    [i \in 1..Len(list) |-> IF list[i].ID = id THEN [list[i] EXCEPT !.Default = "x"]
                            ELSE list[i]]
MarkDefault(list, id) ==
    [i \in 1..Len(list) |-> [list[i] EXCEPT !.Default = IF list[i].ID = id THEN "x" ELSE ""]]

\* "Set as Default" on reason id; the button is disabled unless the
\* reason's checkbox is ticked.  callout_reasons keeps the list as the
\* handler leaves it.
SetAsDefault(id) ==
    /\ OnReasons
    /\ id \in Range(PassShown(selected_callout_reasons, current_page, search_term,
                               show_selected_only))
    /\ IsChecked(reason_checkbox, selected_callout_reasons, id)
    /\ default_callout_reason' = id
    /\ callout_reasons' = MarkDefault(load_callout_reasons, id)
    /\ lastOp' = Op("set_default",
                     IF lastOp.op = "set_default" /\ lastOp.arg # id THEN 1 ELSE 0, id)
    /\ RenderReasons(TRUE, selected_callout_reasons, reason_checkbox,
                     current_page, search_term, show_selected_only)
    /\ UNCHANGED <<reasons_file, has_reasons_state>>
    /\ ReasonsFrame

\* writes the Default? flags only
CommittedReasonsDefaultOnly ==
    [i \in 1..Len(load_callout_reasons) |->
        [load_callout_reasons[i] EXCEPT
            !.Default = IF load_callout_reasons[i].ID = default_callout_reason
                        THEN "x" ELSE ""]]

\* the list "Update Configuration" dumps to callout_reasons.json
CommittedReasons ==
    [i \in 1..Len(load_callout_reasons) |->
        [load_callout_reasons[i] EXCEPT
            !.Use = IF load_callout_reasons[i].ID \in Range(selected_callout_reasons)
                    THEN "x" ELSE "",
            !.Default = IF load_callout_reasons[i].ID = default_callout_reason
                        THEN "x" ELSE ""]]

\* "Update Configuration": the file is written, or open() fails and the
\* error is shown
UpdateConfiguration(written) ==
    /\ OnReasons
    /\ Len(selected_callout_reasons) > 0
    /\ callout_reasons' = CommittedReasons
    /\ reasons_file' = IF written THEN [state |-> "json", data |-> CommittedReasons]
                       ELSE reasons_file
    /\ lastOp' = Op("update_config", 0, IF written THEN "written" ELSE "failed")
    /\ RenderReasons(TRUE, selected_callout_reasons, reason_checkbox,
                     current_page, search_term, show_selected_only)
    /\ UNCHANGED <<has_reasons_state, default_callout_reason>>
    /\ ReasonsFrame

\* "Previous" and "Next": shown when there is more than one page, disabled at
\* the first and at the last page; the handler moves the page and reruns
TurnPage(step) ==
    /\ OnReasons
    /\ LET filtered == FilteredReasons(load_callout_reasons, search_term,
                                       show_selected_only, selected_callout_reasons)
           total_pages == TotalPages(Len(filtered))
           page == ClampPage(current_page, total_pages)
           moved == IF step = -1
                    THEN (IF page - 1 > 0 THEN page - 1 ELSE 0)
                    ELSE (IF page + 1 < total_pages - 1 THEN page + 1 ELSE total_pages - 1)
       IN  /\ total_pages > 1
           /\ step = -1 => page # 0
           /\ step = 1 => page < total_pages - 1
           /\ RenderReasons(TRUE, selected_callout_reasons, reason_checkbox, moved,
                            search_term, show_selected_only)
    /\ callout_reasons' = load_callout_reasons
    /\ lastOp' = Op("turn_page", step, "")
    /\ UNCHANGED <<reasons_file, has_reasons_state, default_callout_reason>>
    /\ ReasonsFrame

PreviousPage == TurnPage(-1)
NextPage == TurnPage(1)

\* the user edits the search box
SetSearchTerm(v) ==
    /\ OnReasons
    /\ v # search_term
    /\ RenderReasons(TRUE, selected_callout_reasons, reason_checkbox, current_page,
                     v, show_selected_only)
    /\ callout_reasons' = load_callout_reasons
    /\ lastOp' = Op("search", current_page, v)
    /\ UNCHANGED <<reasons_file, has_reasons_state, default_callout_reason>>
    /\ ReasonsFrame

\* the user ticks or unticks "Show selected only"
SetShowSelectedOnly(b) ==
    /\ OnReasons
    /\ b # show_selected_only
    /\ RenderReasons(TRUE, selected_callout_reasons, reason_checkbox, current_page,
                     search_term, b)
    /\ callout_reasons' = load_callout_reasons
    /\ lastOp' = Op("show_selected_only", current_page, "")
    /\ UNCHANGED <<reasons_file, has_reasons_state, default_callout_reason>>
    /\ ReasonsFrame


(***************************************************************************)
(* render_generic_tab.  sig_descriptions.json is read on every pass; the   *)
(* pass either finds the tab described there (one text area per field) or  *)
(* falls back to one text area keyed by the tab's name.                    *)
(***************************************************************************)
\* a descriptions file that describes one tab
Describing(tab, fields) == [ok |-> TRUE, tab |-> tab, fields |-> fields]

\* tab_name.replace(" ", "_").lower()
TabKey(tab) == StrLower(StrReplaceChar(tab, " ", "_"))

\* the keys of the text areas the pass shows
GenericKeys(tab, desc) ==
    IF desc.ok /\ desc.tab = tab
    THEN [i \in 1..Len(desc.fields) |-> tab \o "_" \o desc.fields[i]]
    ELSE <<TabKey(tab)>>

RECURSIVE StoreExisting(_, _)
\* "responses[key] = <text area holding responses.get(key, '')>"
StoreExisting(resp, keys) ==
    IF Len(keys) = 0 THEN resp
    ELSE StoreExisting(DictSet(resp, Head(keys), DictGet(resp, Head(keys), StrVal(""))),
                       Tail(keys))

RenderGeneric(resp, tab, desc) == StoreExisting(resp, GenericKeys(tab, desc))

\* the user types text into the text area keyed key
SetGenericText(key, text, desc) ==
    /\ current_tab \in GenericTabs
    /\ key \in Range(GenericKeys(current_tab, desc))
    /\ DictGet(responses, key, StrVal("")) # StrVal(text)
    /\ responses' = DictSet(RenderGeneric(responses, current_tab, desc), key, StrVal(text))
    /\ lastOp' = Op("edit_response", 0, key)
    /\ ResetOut
    /\ UNCHANGED <<hierVars, callout_types, job_classifications, current_tab, reasonVars,
                   eventVars, chat_history, countVars>>

(***************************************************************************)
(* main(): tab selection, the exports and the assistant.                   *)
(***************************************************************************)
\* The user picks another tab; the rerun renders it.
SelectTab(t, desc) ==
    /\ t \in Range(Tabs)
    /\ t # current_tab
    /\ current_tab' = t
    /\ IF t = "Callout Reasons"
       THEN /\ has_reasons_state' = TRUE
            /\ RenderReasons(has_reasons_state, selected_callout_reasons, NoWidgets,
                             current_page, "", FALSE)
            /\ default_callout_reason' =
                   PassDefault(has_reasons_state, default_callout_reason)
            /\ callout_reasons' = load_callout_reasons
       ELSE /\ reason_checkbox' = NoWidgets
            /\ callout_reasons' = <<>>
            /\ search_term' = ""
            /\ show_selected_only' = FALSE
            /\ UNCHANGED <<has_reasons_state, selected_callout_reasons,
                           default_callout_reason, current_page, total_reasons>>
    /\ IF t = "Event Types" /\ ~has_event_types
       THEN has_event_types' = TRUE /\ event_types' = InitialEventTypes
       ELSE UNCHANGED eventVars
    /\ responses' = IF t \in GenericTabs THEN RenderGeneric(responses, t, desc)
                    ELSE responses
    /\ lastOp' = Op("select_tab", 0, t)
    /\ ResetOut
    /\ UNCHANGED <<hierVars, callout_types, job_classifications, reasons_file,
                   chat_history, countVars>>

ExportFrame ==
    UNCHANGED <<storeVars, current_tab, reasons_file, reason_checkbox, callout_reasons,
                pageVars, countVars>>

\* an export that fills in the missing matrix cells while it reads them
ExportCsvDefaulting ==
    /\ csv_data' = export_to_csv
    /\ excel_data' = NoExport
    /\ lastOp' = Op("export_csv", 0, "")
    /\ NewRender
    /\ responses' = MatrixDefaults(responses, MatrixKeys(entries, callout_types))
    /\ UNCHANGED <<entries, hierarchy_timezone, callout_types, job_classifications,
                   has_reasons_state, selected_callout_reasons, default_callout_reason,
                   has_event_types, event_types, chat_history, current_tab, reasons_file,
                   reason_checkbox, callout_reasons, pageVars, countVars>>

\* "Export as CSV"
ExportCsv ==
    /\ csv_data' = export_to_csv
    /\ excel_data' = NoExport
    /\ lastOp' = Op("export_csv", 0, "")
    /\ NewRender
    /\ ExportFrame

\* "Export as Excel"
ExportExcel ==
    /\ excel_data' = export_to_excel
    /\ csv_data' = <<>>
    /\ lastOp' = Op("export_excel", 0, "")
    /\ NewRender
    /\ ExportFrame

\* What the completion API does with one request: it answers; the call
\* raises (api.text is str(e)); or it returns a reply with no choice, and
\* reading response.choices[0] raises.
ApiAnswer(text) == [kind |-> "ok", text |-> text]
ApiRaises(msg) == [kind |-> "create_raises", text |-> msg]
ApiNoChoice == [kind |-> "no_choice", text |-> "list index out of range"]

\* the value a call returns, or the exception it lets through
Returned(v) == [raised |-> FALSE, value |-> v]
Raised(msg) == [raised |-> TRUE, value |-> msg]

\* reads the reply after the try block
GetOpenAIResponseReadingOutside(prompt, context, api) ==
    CASE api.kind = "ok" -> Returned(api.text)
      [] api.kind = "create_raises" -> Returned("Error: " \o api.text)
      [] OTHER -> Raised(api.text)

\* the request and the reading of the reply are both inside the try block
get_openai_response(prompt, context, api) ==
    IF api.kind = "ok"
    THEN Returned(api.text)
    ELSE Returned("Error: " \o api.text)

\* the context main() passes along with the question
TabContext(tab) ==
    "The user is working on the ARCOS System Implementation Guide form. "
      \o "They are currently viewing the '" \o tab \o "' tab."

\* appends the reply alone
AppendReplyOnly(history, asked, reply) ==
    Append(history, [role |-> "assistant", content |-> reply])

\* the two appends: the user's message, then the assistant's
AppendExchange(history, asked, reply) ==
    Append(Append(history, [role |-> "user", content |-> asked]),
           [role |-> "assistant", content |-> reply])

ChatFrame ==
    /\ ResetOut
    /\ UNCHANGED <<hierVars, callout_types, job_classifications, responses, current_tab,
                   reasonVars, eventVars, countVars>>

\* "Ask AI Assistant": nothing happens on an empty question; otherwise both
\* messages are appended once get_openai_response has returned; an exception
\* it let through would end the pass before that
AskAssistant(question, api) ==
    /\ LET response == get_openai_response(question, TabContext(current_tab), api)
       IN  /\ chat_history' =
                 IF question = "" \/ response.raised THEN chat_history
                 ELSE AppendExchange(chat_history, question, response.value)
           /\ lastOp' = IF question = "" THEN Op("ask_empty", 0, "")
                        ELSE Op("ask", IF response.raised THEN 1 ELSE 0, api.kind)
    /\ ChatFrame

\* the topics of the "Need Help?" select box of a tab
HelpTopics(tab) ==
    CASE tab = "Event Types" ->
            <<"Event Types", "Schedule Exceptions", "Override Configuration",
              "Mobile Configuration">>
      [] tab = "Trouble Locations" ->
            <<"Trouble Locations", "Pronunciation Guide", "Recording Requirements",
              "Best Practices">>
      [] OTHER -> <<>>

\* what help can be asked about on a tab: a topic of its select box, or a
\* field of a generic tab that the descriptions file describes
HelpSubjects(tab, desc) ==
    IF tab \in GenericTabs
    THEN (IF desc.ok /\ desc.tab = tab THEN Range(desc.fields) ELSE {})
    ELSE Range(HelpTopics(tab))

HelpQuery(tab, subject) ==
    IF tab \in GenericTabs
    THEN "Explain in detail what information is needed for the '" \o subject
           \o "' section in the '" \o tab \o "' tab of the ARCOS System Implementation"
           \o " Guide. Include examples, best practices, and common configurations."
    ELSE "Explain in detail what I need to know about " \o subject
           \o (IF tab = "Trouble Locations"
               THEN " when configuring the Trouble Locations tab in ARCOS."
               ELSE " when configuring ARCOS.")
           \o " Include examples and best practices."

\* "Get Help" and "Get more help with <field>"
GetHelp(subject, desc, api) ==
    /\ subject \in HelpSubjects(current_tab, desc)
    /\ current_tab = "Event Types" => has_event_types
    /\ LET help_response == get_openai_response(HelpQuery(current_tab, subject), "", api)
       IN  /\ chat_history' =
                 IF help_response.raised THEN chat_history
                 ELSE AppendExchange(chat_history, "Help with " \o subject,
                                     help_response.value)
           /\ lastOp' = Op("get_help", IF help_response.raised THEN 1 ELSE 0, api.kind)
    /\ ChatFrame

ClearChatHistory ==
    /\ Len(chat_history) > 0
    /\ chat_history' = <<>>
    /\ lastOp' = Op("clear_chat", 0, "")
    /\ ChatFrame


(***************************************************************************)
(* Inputs of the interactions, and the specifications.                     *)
(***************************************************************************)
\* the descriptions file of the session: it describes one of the generic tabs
SigDescriptions == Describing("Data and Interfaces", <<"Notes">>)

LevelInputs(k) == CASE k = 1 -> {"", "Acme"} [] k = 2 -> {"", "East"}
                    [] k = 3 -> {"", "Ops"} [] k = 4 -> {"", "Plant1", "Plant2"}
TimezoneInputs == {"", "ET"}
CodeInputs(j) == CASE j = 1 -> {"", "A1"} [] j = 3 -> {"", "A2"} [] OTHER -> {""}
TypeInputs == {"Normal", "Fill Shift"}
NewTypeInputs == {"Storm"}
TextInputs == {"", "note"}
ReasonInputs == {"0", "1001", "1002"}

\* inputs of the export scenarios: the Level-4 name and the job title typed
\* into row i
Level4Inputs == <<"Plant1", "Plant2", "Plant3">>
JobTitleInputs == <<"Lineman", "Groundman">>

\* entries the CSV scenarios keep in the list
MaxCsvEntries == 2

\* Structure of the hierarchy: adds, sub-branch adds, deletes, level and
\* time-zone edits.
NextHier ==
    \/ AddNewLocationEntry
    \/ \E i \in 1..Len(entries) : AddBusinessUnit(i)
    \/ \E i \in 1..Len(entries) : AddDivision(i)
    \/ \E i \in 1..Len(entries) : AddOpCenter(i)
    \/ \E i \in 1..Len(entries) : DeleteEntry(i)
    \/ \E i \in 1..Len(entries) : \E k \in 1..3 : \E v \in LevelInputs(k) :
           i <= 2 /\ SetLevel(i, k, v)
    \/ \E v \in TimezoneInputs : SetEntryTimezone(1, v)

SpecHier == Init /\ [][NextHier]_vars

\* Sub-branches added under a first entry that is filled in and configured.
NextBranch ==
    \/ \E i \in 1..Len(entries) : Len(entries) < MaxCsvEntries /\ AddBusinessUnit(i)
    \/ \E i \in 1..Len(entries) : Len(entries) < MaxCsvEntries /\ AddDivision(i)
    \/ \E i \in 1..Len(entries) : Len(entries) < MaxCsvEntries /\ AddOpCenter(i)
    \/ \E k \in 1..3 : \E v \in LevelInputs(k) : SetLevel(1, k, v)
    \/ \E v \in {"", Level4Inputs[1]} : SetLevel(1, 4, v)
    \/ \E v \in TimezoneInputs : SetEntryTimezone(1, v)
    \/ SetCode(1, 1, "A1")
    \/ SetCalloutType(1, "Normal", TRUE)

SpecBranch == Init /\ [][NextBranch]_vars

\* The callout-type checkboxes of entries, sub-branches included.
NextUpsert ==
    \/ \E i \in 1..Len(entries) : Len(entries) < MaxCsvEntries /\ AddBusinessUnit(i)
    \/ \E v \in LevelInputs(1) : SetLevel(1, 1, v)
    \/ \E i \in 1..Len(entries) : \E v \in {"", Level4Inputs[i]} : SetLevel(i, 4, v)
    \/ \E i \in 1..Len(entries) : \E t \in TypeInputs : \E b \in BOOLEAN :
           SetCalloutType(i, t, b)

SpecUpsert == Init /\ [][NextUpsert]_vars

\* the Level-4 name typed into entry i of the matrix scenarios
MatrixLocationInputs == <<"Plant 1", "Plant_1", "Plant1">>

\* The callout-type matrix over locations whose names hold spaces and
\* underscores.
NextMatrix ==
    \/ Len(entries) < MaxCsvEntries /\ AddNewLocationEntry
    \/ \E i \in 1..Len(entries) : \E v \in {"", MatrixLocationInputs[i]} : SetLevel(i, 4, v)
    \/ \E i \in 1..Len(entries) : \E j \in 1..3 : MatrixToggle(i, j)

SpecMatrix == Init /\ [][NextMatrix]_vars

\* the event types the session has added and still holds
AddedEvents == SelectSeq(event_types, LAMBDA e : e.id \notin Range(InitialEventTypeIDs))

\* The event types: adds, the Use box of the first row, removes of the first
\* row and of the last one, with the filter off and on.
NextEvents ==
    \/ \E t \in {"Location Hierarchy", "Event Types"} : SelectTab(t, SigDescriptions)
    \/ Len(AddedEvents) < MaxAdds /\ AddNewEventType
    \/ \E b \in BOOLEAN : SetEventUse(1, b, FALSE)
    \/ \E show \in BOOLEAN : \E r \in {1, Len(event_types)} :
           /\ r \in 1..Len(event_types)
           /\ r = Len(event_types) \/ Len(AddedEvents) = 0
           /\ RemoveEventType(r, show)

SpecEvents == Init /\ [][NextEvents]_vars

\* a callout_reasons.json of sixteen reasons, all in use: two pages
PagedFile ==
    [state |-> "json",
     data |-> [i \in 1..(items_per_page + 1) |->
                  Reason(ToString(2000 + i), IF i <= 2 THEN "Gas Leak" ELSE "Outage",
                         "x", "", "Pre-recorded")]]

InitPages == InitWith(PagedFile)

\* the search terms typed and the reasons ticked in the paging scenarios
SearchInputs == {"", " Gas"}
PagedReasonInputs == {"2001", "2016"}

\* The pages of the Callout Reasons tab.
NextPages ==
    \/ \E t \in {"Location Hierarchy", "Callout Reasons"} : SelectTab(t, SigDescriptions)
    \/ \E id \in PagedReasonInputs : ToggleReason(id)
    \/ PreviousPage
    \/ NextPage
    \/ \E v \in SearchInputs : SetSearchTerm(v)
    \/ \E b \in BOOLEAN : SetShowSelectedOnly(b)
    \/ ClearAllSelections

SpecPages == InitPages /\ [][NextPages]_vars

\* The hierarchy form as the user drives it, over the stores its operations
\* build.
NextForm ==
    \/ Len(entries) < MaxCsvEntries /\ AddNewLocationEntry
    \/ \E k \in 1..3 : \E v \in {"", TypedInto("lvl" \o ToString(k))} : SetLevel(1, k, v)
    \/ \E i \in 1..Len(entries) : \E v \in {"", Level4Inputs[i]} : SetLevel(i, 4, v)
    \/ \E i \in 1..Len(entries) : \E w \in HierWidgets : UserAction(w, i)

SpecForm == Init /\ [][NextForm]_vars

\* The global callout-type list against the entries' maps.
NextTypes ==
    \/ Len(entries) < MaxCsvEntries /\ AddNewLocationEntry
    \/ \E i \in 1..Len(entries) : Len(entries) < MaxCsvEntries /\ AddBusinessUnit(i)
    \/ \E i \in 1..Len(entries) : \E k \in {1, 4} : \E v \in LevelInputs(k) \ {"Plant2"} :
           SetLevel(i, k, v)
    \/ \E i \in 1..Len(entries) : \E b \in BOOLEAN : SetCalloutType(i, "Normal", b)
    \/ \E name \in NewTypeInputs : AddCalloutType(name)
    \/ Len(callout_types) > Len(DefaultCalloutTypes) /\ RemoveCalloutType(Len(callout_types))
    \/ ExportExcel

SpecTypes == Init /\ [][NextTypes]_vars

\* The rows of the CSV export for the entries.
NextCsv ==
    \/ Len(entries) < MaxCsvEntries /\ AddNewLocationEntry
    \/ \E v \in LevelInputs(1) : SetLevel(1, 1, v)
    \/ \E i \in 1..Len(entries) : \E v \in {"", Level4Inputs[i]} : SetLevel(i, 4, v)
    \/ \E i \in 1..Len(entries) : \E j \in {1, 3} : \E v \in CodeInputs(j) : SetCode(i, j, v)
    \/ \E i \in 1..Len(entries) : \E t \in TypeInputs : \E b \in BOOLEAN :
           SetCalloutType(i, t, b)
    \/ ExportCsv

SpecCsv == Init /\ [][NextCsv]_vars

\* the position of a tab in the navigation
TabIndex(t) == CHOOSE k \in 1..Len(Tabs) : Tabs[k] = t

\* Every kind of row of the exports: entries, jobs, reasons, responses.  The
\* user fills in the tabs from left to right.
NextExport ==
    \/ Len(entries) < MaxCsvEntries /\ AddNewLocationEntry
    \/ \E i \in 1..Len(entries) : \E v \in {"", Level4Inputs[i]} : SetLevel(i, 4, v)
    \/ \E i \in 1..Len(entries) : \E b \in BOOLEAN : SetCalloutType(i, "Normal", b)
    \/ \E v \in {"", "Gas Leak"} : SetCalloutReasons(1, v)
    \/ \E t \in {"Job Classifications", "Callout Reasons", "Data and Interfaces"} :
           TabIndex(current_tab) < TabIndex(t) /\ SelectTab(t, SigDescriptions)
    \/ Len(job_classifications) < Len(JobTitleInputs) /\ AddJobClassification
    \/ \E i \in 1..Len(job_classifications) : \E v \in {"", JobTitleInputs[i]} :
           SetJobTitle(i, v)
    \/ \E v \in TextInputs : SetGenericText("Data and Interfaces_Notes", v, SigDescriptions)
    \/ ExportCsv
    \/ ExportExcel

SpecExport == Init /\ [][NextExport]_vars

\* the default time zones typed into the hierarchy form
DefaultTimezoneInputs == {DefaultTimezone, "CT"}

\* The location views of the exports: levels and time zones.
NextViews ==
    \/ Len(entries) < MaxCsvEntries /\ AddNewLocationEntry
    \/ \E v \in LevelInputs(1) : SetLevel(1, 1, v)
    \/ \E i \in 1..Len(entries) : \E v \in {"", Level4Inputs[i]} : SetLevel(i, 4, v)
    \/ \E i \in 1..Len(entries) : \E v \in TimezoneInputs : SetEntryTimezone(i, v)
    \/ \E v \in DefaultTimezoneInputs : SetDefaultTimezone(v)
    \/ ExportCsv
    \/ ExportExcel

SpecViews == Init /\ [][NextViews]_vars

\* the recording verbiage typed into job row i
RecordingInputs == <<"Line man", "Ground man">>

\* The job classifications in the exports.
NextJobs ==
    \/ \E t \in {"Location Hierarchy", "Job Classifications"} : SelectTab(t, SigDescriptions)
    \/ \E v \in {"", Level4Inputs[1]} : SetLevel(1, 4, v)
    \/ Len(job_classifications) < Len(JobTitleInputs) /\ AddJobClassification
    \/ \E i \in 1..Len(job_classifications) : \E v \in {"", JobTitleInputs[i]} :
           SetJobTitle(i, v)
    \/ \E i \in 1..Len(job_classifications) : \E v \in {"", RecordingInputs[i]} :
           SetJobRecording(i, v)
    \/ ExportCsv
    \/ ExportExcel

SpecJobs == Init /\ [][NextJobs]_vars

\* The free-text responses of the generic tabs.
NextResp ==
    \/ \E t \in {"Additions", "Data and Interfaces", "Callout Type Configuration"} :
           SelectTab(t, SigDescriptions)
    \/ \E key \in {"additions", "Data and Interfaces_Notes", "callout_type_configuration"} :
           \E v \in TextInputs : SetGenericText(key, v, SigDescriptions)
    \/ ExportCsv
    \/ ExportExcel

SpecResp == Init /\ [][NextResp]_vars

\* a callout_reasons.json a session may find: readable, three reasons
SampleFile ==
    [state |-> "json",
     data |-> << Reason("0", "", "x", "", "n/a"),
                 Reason("1001", "Broken Line", "x", "x", "Pre-recorded"),
                 Reason("1002", "Depression Road", "", "", "Pre-recorded") >>]

InitReasons == InitWith(MissingFile) \/ InitWith(SampleFile)

\* The Callout Reasons tab.
NextReasons ==
    \/ \E t \in {"Location Hierarchy", "Callout Reasons"} : SelectTab(t, SigDescriptions)
    \/ \E id \in ReasonInputs : ToggleReason(id)
    \/ ClearAllSelections
    \/ \E id \in ReasonInputs : SetAsDefault(id)
    \/ \E written \in BOOLEAN : UpdateConfiguration(written)
    \/ ExportCsv

SpecReasons == InitReasons /\ [][NextReasons]_vars

\* the states callout_reasons.json may be in when the session starts
InitLoad ==
    \E file \in {MissingFile, UnreadableFile, InvalidJsonFile, SampleFile} : InitWith(file)

\* Loading the callout reasons: the tab and both exports.
NextLoad ==
    \/ \E t \in {"Location Hierarchy", "Callout Reasons"} : SelectTab(t, SigDescriptions)
    \/ \E v \in {"", Level4Inputs[1]} : SetLevel(1, 4, v)
    \/ \E id \in {"0", "1001"} : ToggleReason(id)
    \/ SetAsDefault("1001")
    \/ \E written \in BOOLEAN : UpdateConfiguration(written)
    \/ ExportCsv
    \/ ExportExcel

SpecLoad == InitLoad /\ [][NextLoad]_vars

\* questions asked in a session
MaxAsks == 2

QuestionInputs == {"How many levels?", "Error: what is it?"}
ApiInputs == {ApiAnswer("Four levels."), ApiRaises("Connection error."), ApiNoChoice}

\* The assistant panel, on any of three tabs.
NextChat ==
    \/ \E t \in {"Location Hierarchy", "Job Classifications", "Additions"} :
           SelectTab(t, SigDescriptions)
    \/ /\ Len(chat_history) < 2 * MaxAsks
       /\ \E q \in QuestionInputs : \E api \in ApiInputs : AskAssistant(q, api)
    \/ ClearChatHistory

SpecChat == Init /\ [][NextChat]_vars

\* what help is asked about
HelpInputs == {"Notes", "Schedule Exceptions"}

\* The chat history: questions, empty ones too, help requests and clearing.
NextHelp ==
    \/ \E t \in {"Location Hierarchy", "Event Types", "Data and Interfaces"} :
           SelectTab(t, SigDescriptions)
    \/ /\ Len(chat_history) < 2 * MaxAsks
       /\ \E q \in {"", "How many levels?"} : \E api \in ApiInputs : AskAssistant(q, api)
    \/ /\ Len(chat_history) < 2 * MaxAsks
       /\ \E subject \in HelpInputs : \E api \in ApiInputs :
              GetHelp(subject, SigDescriptions, api)
    \/ ClearChatHistory

SpecHelp == Init /\ [][NextHelp]_vars

\* every interaction of the model
Next ==
    \/ NextHier
    \/ NextTypes
    \/ NextCsv
    \/ NextExport
    \/ NextResp
    \/ NextReasons
    \/ \E i \in 1..Len(entries) : \E j \in 1..Len(callout_types) : MatrixToggle(i, j)
    \/ \E idx \in 1..Len(callout_types) : RemoveCalloutType(idx)
    \/ \E i \in 1..Len(job_classifications) : RemoveJobClassification(i)
    \/ \E i \in 1..Len(job_classifications) : \E v \in {"", "Journeyman", "Apprentice"} :
           SetJobType(i, v)
    \/ \E i \in 1..Len(job_classifications) : \E v \in {"", "J1"} : SetJobId(i, 1, v)
    \/ \E i \in 1..Len(job_classifications) : \E v \in {"", "Line man"} :
           SetJobRecording(i, v)
    \/ \E v \in {DefaultTimezone, "CT"} : SetDefaultTimezone(v)
    \/ NextChat

Spec == InitReasons /\ [][Next]_vars


(***************************************************************************)
(* Properties.                                                             *)
(***************************************************************************)

\* C1 (as stated): the number of location entries equals the number of
\* add-entry actions minus the number of removes.
C1_CountIsAddsMinusRemoves == Len(entries) = n_adds - n_removes

\* C1 (amended): the number of location entries equals the one entry the
\* session starts with, plus the add-entry actions, minus the removes.
C1_CountIsSeedPlusAddsMinusRemoves == Len(entries) = 1 + n_adds - n_removes

C1_Witness == n_adds = 2 /\ n_removes = 1 /\ Len(entries) = 2

\* C2: a delete at index i removes exactly that entry: the entries before i
\* keep their index and their fields, those after i move down by one with
\* their fields unchanged.
C2_DeleteRemovesExactlyThatEntry ==
    [][lastOp'.op = "delete_entry" =>
          LET i == lastOp'.idx
          IN  /\ Len(entries') = Len(entries) - 1
              /\ \A j \in 1..Len(entries') :
                    entries'[j] = IF j < i THEN entries[j] ELSE entries[j + 1]]_vars

C2_Witness ==
    /\ lastOp.op = "delete_entry" /\ lastOp.idx = 2
    /\ Len(entries) = 2
    /\ entries[1] # entries[2]
    /\ entries[1].level1 # "" /\ entries[2].timezone # ""

DefaultFlagged(list) == {i \in 1..Len(list) : list[i].Default = "x"}

C4_NewTypeBackfilled ==
    lastOp.op = "add_type" =>
        \A i \in 1..Len(entries) :
            /\ DictHas(entries[i].callout_types, lastOp.arg)
            /\ ~DictGet(entries[i].callout_types, lastOp.arg, TRUE)

AddOps == {"add_entry", "add_bu", "add_div", "add_op"}

\* C5: the entry appended by an add action holds every callout type of the
\* global list, each with value false.
C5_NewEntryHoldsEveryType ==
    lastOp.op \in AddOps =>
        \A t \in Range(callout_types) :
            /\ DictHas(entries[Len(entries)].callout_types, t)
            /\ ~DictGet(entries[Len(entries)].callout_types, t, TRUE)


RECURSIVE WantedCodes(_, _, _)
\* the non-empty codes from slot j on, in slot order, joined by ", "
WantedCodes(codes, j, first) ==
    IF j > Len(codes) THEN ""
    ELSE IF codes[j] = "" THEN WantedCodes(codes, j + 1, first)
    ELSE (IF first THEN "" ELSE ", ") \o codes[j] \o WantedCodes(codes, j + 1, FALSE)

RECURSIVE WantedTypes(_, _, _)
\* the names of the enabled callout types from item j on, joined by ", "
WantedTypes(map, j, first) ==
    IF j > Len(map) THEN ""
    ELSE IF ~map[j].v THEN WantedTypes(map, j + 1, first)
    ELSE (IF first THEN "" ELSE ", ") \o map[j].k \o WantedTypes(map, j + 1, FALSE)

EndsWith(s, t) == Len(s) >= Len(t) /\ SubSeq(s, Len(s) - Len(t) + 1, Len(s)) = t

Populated(e) == \E k \in 1..4 : Level(e, k) # ""

TypesTab == "Matrix of Locations and CO Types"
ReasonsTab == "Matrix of Locations and Reasons"

\* C6: the CSV export has, for the populated entry at position k, a
\* "Location Entry #k" row that holds "Level 4: <level4>" and ends with
\* "Codes: " and the entry's non-empty codes in slot order; for an entry with
\* Level4 and an enabled callout type it has a row under the Level4 name that
\* is exactly the enabled names joined by ", "; and it has no other
\* callout-type row.
C6_EntryRows ==
    csv_data # <<>> =>
        /\ \A k \in 1..Len(entries) :
              LET e == entries[k]
              IN  /\ Populated(e) =>
                        \E p \in 1..Len(csv_data) :
                            /\ csv_data[p].Tab = "Location Hierarchy"
                            /\ csv_data[p].Section = "Location Entry #" \o ToString(k)
                            /\ StrContains(csv_data[p].Response, "Level 4: " \o e.level4 \o ", ")
                            /\ EndsWith(csv_data[p].Response,
                                        ", Codes: " \o WantedCodes(e.codes, 1, TRUE))
                  /\ (e.level4 # "" /\ \E j \in 1..Len(e.callout_types) : e.callout_types[j].v) =>
                        \E p \in 1..Len(csv_data) :
                            /\ csv_data[p].Tab = TypesTab
                            /\ csv_data[p].Section = e.level4
                            /\ csv_data[p].Response = WantedTypes(e.callout_types, 1, TRUE)
        /\ Cardinality({p \in 1..Len(csv_data) : csv_data[p].Tab = TypesTab})
             = Cardinality({k \in 1..Len(entries) :
                              /\ entries[k].level4 # ""
                              /\ \E j \in 1..Len(entries[k].callout_types) :
                                     entries[k].callout_types[j].v})

\* the second entry has codes in slots 1 and 3 and two enabled types; the
\* first has a level but no Level4
C6_Witness ==
    /\ csv_data # <<>>
    /\ Len(entries) = 2
    /\ entries[1].level1 # "" /\ entries[1].level4 = ""
    /\ entries[2].level4 = "Plant2"
    /\ entries[2].codes[1] = "A1" /\ entries[2].codes[3] = "A2"
    /\ \A t \in TypeInputs : DictGet(entries[2].callout_types, t, FALSE)

IsEntryRow(r) == r.Tab = "Location Hierarchy"
IsMatrixRow(r) == r.Tab \in {TypesTab, ReasonsTab}

\* the block of a row, in the order the claim gives
BlockAsClaimed(r) ==
    CASE r.Tab = "Location Hierarchy" -> 1
      [] r.Tab \in {TypesTab, ReasonsTab} -> 2
      [] r.Tab = "Job Classifications" -> 3
      [] r.Tab = "Callout Reasons" -> 4
      [] OTHER -> 5

\* the block of a row, with the rows of the entries in one block
Block(r) ==
    CASE r.Tab \in {"Location Hierarchy", TypesTab, ReasonsTab} -> 1
      [] r.Tab = "Job Classifications" -> 2
      [] r.Tab = "Callout Reasons" -> 3
      [] OTHER -> 4

\* C7 (as stated): in the CSV export all location-hierarchy rows come
\* first, then all matrix-derived rows, then the job rows, the callout-reason
\* summary and the free-text responses.
C7_BlocksAsClaimed ==
    \A p, q \in 1..Len(csv_data) :
        p < q => BlockAsClaimed(csv_data[p]) <= BlockAsClaimed(csv_data[q])

\* C7 (amended): the rows of the entries come first, entry by entry in
\* insertion order, each entry's location row directly followed by its own
\* matrix-derived rows; then the job rows in insertion order, then the
\* callout-reason summary, then the free-text responses.
C7_RowOrder ==
    /\ \A p, q \in 1..Len(csv_data) :
          p < q => Block(csv_data[p]) <= Block(csv_data[q])
    /\ \A p \in 1..Len(csv_data) :
          IsMatrixRow(csv_data[p]) =>
              \E q \in 1..(p - 1) :
                  /\ IsEntryRow(csv_data[q])
                  /\ StrContains(csv_data[q].Response,
                                 "Level 4: " \o csv_data[p].Section \o ", ")
                  /\ \A r \in (q + 1)..(p - 1) :
                        IsMatrixRow(csv_data[r]) /\ csv_data[r].Tab # csv_data[p].Tab
    /\ csv_data # <<>> =>
          /\ \A k, m \in 1..Len(entries) :
                (k < m /\ Populated(entries[k]) /\ Populated(entries[m])) =>
                    \E p, q \in 1..Len(csv_data) :
                        /\ p < q
                        /\ csv_data[p].Section = "Location Entry #" \o ToString(k)
                        /\ csv_data[q].Section = "Location Entry #" \o ToString(m)
          /\ \A k, m \in 1..Len(job_classifications) :
                (/\ k < m
                 /\ job_classifications[k].title # ""
                 /\ job_classifications[m].title # ""
                 /\ job_classifications[k].title # job_classifications[m].title) =>
                    \E p, q \in 1..Len(csv_data) :
                        /\ p < q
                        /\ csv_data[p].Tab = "Job Classifications"
                        /\ csv_data[q].Tab = "Job Classifications"
                        /\ StartsWith(csv_data[p].Section, job_classifications[k].title)
                        /\ StartsWith(csv_data[q].Section, job_classifications[m].title)

\* an export with two Level-4 entries that have an enabled type, two titled
\* jobs, the reason summary and a free-text response
C7_Witness ==
    /\ csv_data # <<>>
    /\ Cardinality({p \in 1..Len(csv_data) : csv_data[p].Tab = TypesTab}) = 2
    /\ Cardinality({p \in 1..Len(csv_data) : csv_data[p].Tab = "Job Classifications"}) = 2
    /\ \E p \in 1..Len(csv_data) : csv_data[p].Tab = "Callout Reasons"
    /\ \E p \in 1..Len(csv_data) : Block(csv_data[p]) = 4


\* a response the export is to carry: a non-empty value under a key that is
\* neither a matrix cell nor a reason checkbox
FreeText(item) ==
    /\ Truthy(item.v)
    /\ ~StartsWith(item.k, "matrix_")
    /\ ~StartsWith(item.k, "reason_")

\* the row (Tab, Section, Response) stands for the response item
RowOf(tab, section, response, item) ==
    /\ response = PyStr(item.v)
    /\ \/ tab \o "_" \o section = item.k
       \/ tab = item.k
       \/ section = item.k

\* C8: every non-empty free-text response is exactly one row of the CSV
\* export and exactly one row of the workbook's Other Configurations sheet.
C8_EveryResponseExported ==
    /\ csv_data # <<>> =>
          \A i \in 1..Len(responses) :
              FreeText(responses[i]) =>
                  Cardinality({p \in 1..Len(csv_data) :
                                  RowOf(csv_data[p].Tab, csv_data[p].Section,
                                        csv_data[p].Response, responses[i])}) = 1
    /\ (excel_data.done /\ ~excel_data.raised) =>
          \A i \in 1..Len(responses) :
              FreeText(responses[i]) =>
                  \E s \in 1..Len(excel_data.sheets) :
                      /\ excel_data.sheets[s].name = "Other Configurations"
                      /\ Cardinality({p \in 1..Len(excel_data.sheets[s].rows) :
                                        LET r == excel_data.sheets[s].rows[p]
                                        IN  RowOf(r[1], r[2], r[3], responses[i])}) = 1

\* C9: an export leaves the configuration store as it was.
C9_ExportLeavesStore ==
    [][lastOp'.op \in {"export_csv", "export_excel"} => UNCHANGED storeVars]_vars

\* an export of a store with a Level-4 entry, a titled job, the reasons
\* state and a response
C9_Witness ==
    /\ lastOp.op = "export_csv"
    /\ \E i \in 1..Len(entries) : entries[i].level4 # ""
    /\ \E i \in 1..Len(job_classifications) : job_classifications[i].title # ""
    /\ has_reasons_state
    /\ \E i \in 1..Len(responses) : Truthy(responses[i].v)

\* the freshly initialised session
FreshSession ==
    /\ entries = <<BlankEntry>>
    /\ job_classifications = <<BlankJob>>
    /\ responses = <<>>
    /\ ~has_reasons_state

EntityTabs == {"Location Hierarchy", "Job Classifications", TypesTab, ReasonsTab}
EntitySheets == {"Location Hierarchy", "Matrix of CO Types", "Matrix of Callout Types",
                 "Matrix of Reasons", "Job Classifications"}

\* C10 (as stated): the exports of the fresh session do not raise, the CSV
\* has no hierarchy, job or matrix row and the workbook none of their sheets.
C10_FreshExportHasNoEntityRow ==
    FreshSession =>
        /\ \A p \in 1..Len(csv_data) : csv_data[p].Tab \notin EntityTabs
        /\ ~excel_data.raised
        /\ \A s \in 1..Len(excel_data.sheets) : excel_data.sheets[s].name \notin EntitySheets

\* C10 (amended): the exports of the fresh session do not raise; the CSV
\* has no location-entry, job or matrix row: it is the row of the hierarchy
\* labels alone; the workbook has none of the entity sheets.
C10_FreshExportIsLabelsOnly ==
    FreshSession =>
        /\ csv_data # <<>> =>
              csv_data = <<Row("Location Hierarchy", "Labels",
                               "['Parent Company', 'Business Unit', 'Division', 'OpCenter']")>>
        /\ ~excel_data.raised
        /\ \A s \in 1..Len(excel_data.sheets) : excel_data.sheets[s].name \notin EntitySheets

C10_Witness == FreshSession /\ lastOp.op = "export_csv" /\ csv_data # <<>>

HasSheet(name) == \E k \in 1..Len(excel_data.sheets) : excel_data.sheets[k].name = name

MatrixSheetNames == {"Matrix of CO Types", "Matrix of Callout Types"}

\* C11: the workbook holds the sheet of an entity kind exactly when that kind
\* has a qualifying row: Location Hierarchy (an entry with a non-empty
\* level), the callout-type matrix (an entry with Level4), Matrix of Reasons
\* (an entry with Level4 and callout-reasons text), Job Classifications (a
\* titled job), Callout Reasons (a selected reason), Other Configurations (an
\* exportable non-empty response).
C11_SheetIffRows ==
    excel_data.done =>
        /\ HasSheet("Location Hierarchy") <=> \E i \in 1..Len(entries) : Populated(entries[i])
        /\ (\E n \in MatrixSheetNames : HasSheet(n))
              <=> \E i \in 1..Len(entries) : entries[i].level4 # ""
        /\ HasSheet("Matrix of Reasons")
              <=> \E i \in 1..Len(entries) :
                     entries[i].level4 # "" /\ entries[i].callout_reasons # ""
        /\ HasSheet("Job Classifications")
              <=> \E i \in 1..Len(job_classifications) : job_classifications[i].title # ""
        /\ HasSheet("Callout Reasons")
              <=> (has_reasons_state /\ Len(selected_callout_reasons) > 0)
        /\ HasSheet("Other Configurations")
              <=> \E i \in 1..Len(responses) :
                     OtherKeyExported(responses[i].k, responses[i].v)

ClaimedSheetNames ==
    {"Location Hierarchy", "Matrix of Callout Types", "Matrix of Reasons",
     "Job Classifications", "Callout Reasons", "Other Configurations"}

WrittenSheetNames ==
    {"Location Hierarchy", "Matrix of CO Types", "Matrix of Reasons",
     "Job Classifications", "Callout Reasons", "Other Configurations"}

\* C12 (as stated): every sheet export_to_excel writes is named one of
\* Location Hierarchy, Matrix of Callout Types, Matrix of Reasons, Job
\* Classifications, Callout Reasons, Other Configurations.
C12_SheetNamesAsClaimed ==
    excel_data.done =>
        \A k \in 1..Len(XlsWritten) : XlsWritten[k].name \in ClaimedSheetNames

\* C12 (amended): every sheet export_to_excel writes is named one of
\* Location Hierarchy, Matrix of CO Types, Matrix of Reasons, Job
\* Classifications, Callout Reasons, Other Configurations; the callout-type
\* matrix sheet, one row per entry with Level4, is named Matrix of CO Types.
C12_SheetNames ==
    excel_data.done =>
        /\ \A k \in 1..Len(XlsWritten) : XlsWritten[k].name \in WrittenSheetNames
        /\ \A k \in 1..Len(excel_data.sheets) :
              excel_data.sheets[k].name \in WrittenSheetNames
        /\ (\E i \in 1..Len(entries) : entries[i].level4 # "") =>
              \E k \in 1..Len(excel_data.sheets) :
                  /\ excel_data.sheets[k].name = "Matrix of CO Types"
                  /\ Len(excel_data.sheets[k].rows)
                        = Cardinality({i \in 1..Len(entries) : entries[i].level4 # ""})
                  /\ \A r \in 1..Len(excel_data.sheets[k].rows) :
                        \E i \in 1..Len(entries) :
                            excel_data.sheets[k].rows[r][1] = entries[i].level4

C12_Witness ==
    /\ excel_data.done /\ ~excel_data.raised
    /\ Cardinality({i \in 1..Len(entries) : entries[i].level4 # ""}) = 2
    /\ HasSheet("Matrix of CO Types")
    /\ HasSheet("Job Classifications")

\* C20: export_to_excel never raises, also when no location entry has a
\* populated level while a job has a title, a callout reason is selected or
\* an exportable response is non-empty.
C20_ExcelNeverRaises == excel_data.done => ~excel_data.raised

SheetRows(name) ==
    IF HasSheet(name)
    THEN (CHOOSE sh \in Range(excel_data.sheets) : sh.name = name).rows
    ELSE <<>>

\* C13: a location entry whose Level4 is empty has no row in the CSV export,
\* no row in a workbook sheet and no row in the callout-type matrix, whatever
\* its other levels hold.
C13_NoLevel4NoRow ==
    /\ csv_data # <<>> =>
          \A k \in 1..Len(entries) :
              entries[k].level4 = "" =>
                  \A p \in 1..Len(csv_data) :
                      csv_data[p].Section # "Location Entry #" \o ToString(k)
    /\ (excel_data.done /\ ~excel_data.raised) =>
          /\ \A r \in 1..Len(SheetRows("Location Hierarchy")) :
                SheetRows("Location Hierarchy")[r][4] # ""
          /\ \A r \in 1..Len(SheetRows("Matrix of CO Types")) :
                SheetRows("Matrix of CO Types")[r][1] # ""
    /\ Len(MatrixKeys(entries, callout_types))
          = Cardinality({i \in 1..Len(entries) : entries[i].level4 # ""})
              * Len(callout_types)

\* the positions of the entries with a non-empty level, in list order
PopulatedIdx ==
    SelectSeq([i \in 1..Len(entries) |-> i], LAMBDA i : Populated(entries[i]))

WantedTimezone(e) == IF e.timezone = "" THEN hierarchy_timezone ELSE e.timezone

\* C14: the CSV row and the Location Hierarchy sheet row of every exported
\* entry report the entry's own time zone when it has one, and otherwise the
\* default time zone the store holds when the export runs.
C14_ResolvedTimezone ==
    /\ csv_data # <<>> =>
          \A k \in 1..Len(entries) :
              Populated(entries[k]) =>
                  \E p \in 1..Len(csv_data) :
                      /\ csv_data[p].Section = "Location Entry #" \o ToString(k)
                      /\ StrContains(csv_data[p].Response,
                                     ", Time Zone: " \o WantedTimezone(entries[k])
                                        \o ", Codes: ")
    /\ (excel_data.done /\ ~excel_data.raised) =>
          /\ Len(SheetRows("Location Hierarchy")) = Len(PopulatedIdx)
          /\ \A r \in 1..Len(PopulatedIdx) :
                SheetRows("Location Hierarchy")[r][5]
                    = WantedTimezone(entries[PopulatedIdx[r]])

\* both cases at once, after the default was changed: entry 1 has its own
\* time zone, entry 2 has none
C14_Witness ==
    /\ excel_data.done /\ ~excel_data.raised
    /\ Len(entries) = 2
    /\ hierarchy_timezone = "CT"
    /\ Populated(entries[1]) /\ entries[1].timezone = "ET"
    /\ Populated(entries[2]) /\ entries[2].timezone = ""

\* the positions of the titled jobs, in list order
TitledIdx ==
    SelectSeq([i \in 1..Len(job_classifications) |-> i],
              LAMBDA i : job_classifications[i].title # "")

WantedRecording(job) == IF job.recording = "" THEN job.title ELSE job.recording

\* C19: the exports report, for a titled job, its recording verbiage when
\* that is non-empty and its title otherwise: in the 'Recording:' part of
\* its CSV row and in the Recording column of the Job Classifications sheet.
C19_RecordingFallsBackToTitle ==
    /\ csv_data # <<>> =>
          \A i \in 1..Len(job_classifications) :
              LET job == job_classifications[i]
              IN  job.title # "" =>
                      \E p \in 1..Len(csv_data) :
                          /\ csv_data[p].Tab = "Job Classifications"
                          /\ StartsWith(csv_data[p].Section, job.title \o " (")
                          /\ EndsWith(csv_data[p].Response,
                                      ", Recording: " \o WantedRecording(job))
    /\ (excel_data.done /\ ~excel_data.raised) =>
          /\ Len(SheetRows("Job Classifications")) = Len(TitledIdx)
          /\ \A r \in 1..Len(TitledIdx) :
                LET row == SheetRows("Job Classifications")[r]
                IN  row[Len(row)] = WantedRecording(job_classifications[TitledIdx[r]])

\* C17: no non-empty location code appears in two code slots of the
\* hierarchy, of one entry or of two.
C17_CodesUnique ==
    \A i, i2 \in 1..Len(entries) :
        \A j \in 1..Len(entries[i].codes) :
            \A j2 \in 1..Len(entries[i2].codes) :
                (<<i, j>> # <<i2, j2>> /\ entries[i].codes[j] # "")
                    => entries[i].codes[j] # entries[i2].codes[j2]

\* the built-in reasons, as <<ID, label>>
BuiltInReasons ==
    << <<"0", "">>, <<"1001", "Broken Line">>, <<"1002", "Depression Road">>,
       <<"1003", "Depression Yard">>, <<"1007", "Emergency">>, <<"1008", "Odor">> >>

RECURSIVE WantedSummary(_, _)
\* "<ID>: <label>" of the selected built-in reasons from position j on, joined by ", "
WantedSummary(j, first) ==
    IF j > Len(BuiltInReasons) THEN ""
    ELSE IF BuiltInReasons[j][1] \notin Range(selected_callout_reasons)
         THEN WantedSummary(j + 1, first)
         ELSE (IF first THEN "" ELSE ", ") \o BuiltInReasons[j][1] \o ": "
                \o BuiltInReasons[j][2] \o WantedSummary(j + 1, FALSE)

FileFails == reasons_file.state \in {"missing", "unreadable", "invalid_json"}

C16_FailureBecomesErrorString ==
    (lastOp.op = "ask" /\ lastOp.arg # "ok") =>
        /\ lastOp.idx = 0
        /\ Len(chat_history) >= 2
        /\ chat_history[Len(chat_history)].role = "assistant"
        /\ StartsWith(chat_history[Len(chat_history)].content, "Error:")
        /\ chat_history[Len(chat_history) - 1].role = "user"

\* a failed reading of the reply, after an answered question
C16_Witness ==
    /\ lastOp.op = "ask" /\ lastOp.arg = "no_choice"
    /\ Len(chat_history) = 4
    /\ chat_history[2].content = "Four levels."
    /\ chat_history[4].content = "Error: list index out of range"

\* C18: the rerun triggered by a user action in the Location Hierarchy form
\* (a click on Add New Location Entry, on a delete or a sub-branch button,
\* an edit of a level, time zone or code field) applies the action to the
\* store.
C18_ActionApplied ==
    [][lastOp'.op = "user_action" => entries' = HandlerEffect(lastOp'.arg, lastOp'.idx)]_vars

BranchOps == {"add_bu", "add_div", "add_op"}

C22_CommitLoadRoundTrip ==
    (lastOp.op = "update_config" /\ lastOp.arg = "written") =>
        /\ reasons_file.state = "json"
        /\ \A i \in 1..Len(reasons_file.data) :
              LET r == reasons_file.data[i]
              IN  /\ r.Use = "x" <=> r.ID \in Range(selected_callout_reasons)
                  /\ r.Default = "x" <=> r.ID = default_callout_reason
        /\ Range(PassSelected(FALSE, <<>>, NoWidgets)) = Range(selected_callout_reasons)
        /\ PassDefault(FALSE, "") = default_callout_reason

\* the commit changed both the selection and the default the file held
C22_Witness ==
    /\ lastOp.op = "update_config" /\ lastOp.arg = "written"
    /\ "0" \notin Range(selected_callout_reasons)
    /\ "1002" \in Range(selected_callout_reasons)
    /\ default_callout_reason = "1002"

\* C23: setting callout type t of entry i to b leaves b under t in that
\* entry's map; setting it again would change nothing; the entry's other
\* types, its other fields and every other entry stay as they were.
C23_SetCalloutTypeIsUpsert ==
    [][\A i \in 1..Len(entries) : \A t \in Range(DefaultCalloutTypes) : \A b \in BOOLEAN :
          SetCalloutType(i, t, b) =>
              /\ Len(entries') = Len(entries)
              /\ DictGet(entries'[i].callout_types, t, ~b) = b
              /\ DictSet(entries'[i].callout_types, t, b) = entries'[i].callout_types
              /\ DictKeys(entries'[i].callout_types) = DictKeys(entries[i].callout_types)
              /\ \A u \in Range(DefaultCalloutTypes) \ {t} :
                    DictGet(entries'[i].callout_types, u, FALSE)
                        = DictGet(entries[i].callout_types, u, FALSE)
              /\ [entries'[i] EXCEPT !.callout_types = entries[i].callout_types] = entries[i]
              /\ \A j \in 1..Len(entries) : j # i => entries'[j] = entries[j]]_vars

\* a type was switched off on the parent while another type is on there and
\* the first type is on in the parent's sub-branch
C23_Witness ==
    /\ lastOp.op = "edit_entry"
    /\ Len(entries) = 2
    /\ entries[2].level1 = entries[1].level1 /\ entries[1].level1 # ""
    /\ ~DictGet(entries[1].callout_types, "Normal", FALSE)
    /\ DictGet(entries[1].callout_types, "Fill Shift", FALSE)
    /\ DictGet(entries[2].callout_types, "Normal", FALSE)
    /\ ~DictGet(entries[2].callout_types, "Fill Shift", FALSE)

\* the value stored for the cell of location name loc and callout type ct
MatrixCell(resp, loc, ct) == DictGet(resp, MatrixKey(loc, ct), BoolVal(FALSE)).b

\* the (location name, callout type) pairs of the matrix
MatrixPairs ==
    {<<entries[i].level4, callout_types[j]>> :
        i \in {n \in 1..Len(entries) : entries[n].level4 # ""},
        j \in 1..Len(callout_types)}

\* C24: two distinct (location name, callout type) pairs of the matrix are
\* stored under different response keys, and toggling the cell of one pair
\* leaves the stored value of every other pair as it was.
C24_MatrixKeysNeverCollide ==
    [][/\ \A p, q \in MatrixPairs : p # q => MatrixKey(p[1], p[2]) # MatrixKey(q[1], q[2])
       /\ \A i \in 1..Len(entries) : \A j \in 1..Len(callout_types) :
             MatrixToggle(i, j) =>
                 \A q \in MatrixPairs :
                     q # <<entries[i].level4, callout_types[j]>> =>
                         MatrixCell(responses', q[1], q[2])
                             = MatrixCell(MatrixDefaults(responses,
                                              MatrixKeys(entries, callout_types)),
                                          q[1], q[2])]_vars

\* C25: the remove button of displayed row r removes from event_types the
\* event type shown on that row and nothing else, with the filter off and on.
C25_RemoveRemovesDisplayedRow ==
    [][\A show \in BOOLEAN : \A r \in 1..Len(event_types) :
          RemoveEventType(r, show) =>
              event_types' = ListPop(event_types, FilteredEventIdx(show)[r])]_vars

\* the IDs of the event types are pairwise distinct
EventIdsDistinct(events) ==
    \A i, j \in 1..Len(events) : i # j => events[i].id # events[j].id

\* C28: the IDs of the event types stay pairwise distinct and numeric; an add
\* does not raise and appends one event type whose ID is '2000' when the list
\* was empty and the largest ID plus one otherwise.
C28_EventIdsDistinct ==
    [][/\ EventIdsDistinct(event_types')
       /\ \A i \in 1..Len(event_types') : IsNumeric(event_types'[i].id)
       /\ AddNewEventType =>
             /\ lastOp'.idx = 0
             /\ Len(event_types') = Len(event_types) + 1
             /\ SubSeq(event_types', 1, Len(event_types)) = event_types
             /\ LET new == event_types'[Len(event_types')].id
                IN  IF event_types = <<>> THEN new = "2000"
                    ELSE /\ new = ToString(StrToInt(new))
                         /\ \E i \in 1..Len(event_types) :
                                StrToInt(new) = StrToInt(event_types[i].id) + 1
                         /\ \A i \in 1..Len(event_types) :
                                StrToInt(event_types[i].id) < StrToInt(new)]_vars

\* every built-in event type was removed and one was added to the empty list
C28_Witness ==
    /\ lastOp.op = "add_event"
    /\ Len(event_types) = 1
    /\ event_types[1].id = "2000"

\* C26: when the rerun asked for by "Clear All Selections" has rendered the
\* tab, with every checkbox keeping its checked state across the rerun, the
\* selection is empty.
C26_ClearAllLeavesNoneSelected ==
    (lastOp.op = "clear_all" /\ lastOp.arg = "kept") => selected_callout_reasons = <<>>

\* C27: a non-empty default reason is one of the selected reasons, in the
\* session and in the 'Default Reason' and 'Selected Reasons' rows of the CSV.
C27_DefaultIsSelected ==
    /\ (has_reasons_state /\ default_callout_reason # "") =>
           default_callout_reason \in Range(selected_callout_reasons)
    /\ \A p \in 1..Len(csv_data) :
           (csv_data[p].Tab = "Callout Reasons" /\ csv_data[p].Section = "Default Reason") =>
               \E q \in 1..Len(csv_data) :
                   /\ csv_data[q].Tab = "Callout Reasons"
                   /\ csv_data[q].Section = "Selected Reasons"
                   /\ StrContains(csv_data[q].Response, csv_data[p].Response)

\* ceil(n / 15), and 1 when that is 0
WantedPages(n) ==
    CHOOSE k \in 1..(n + 1) :
        \/ k = 1 /\ n <= 15
        \/ 15 * (k - 1) < n /\ n <= 15 * k

\* C29: after a pass of the Callout Reasons tab the page lies in
\* 0..total_pages-1, total_pages being max(1, ceil(filtered reasons / 15)),
\* and when the filtered list is not empty the page displays its reasons
\* from position 15 * page on, at least one and at most 15.
C29_PageInRange ==
    OnReasons =>
        /\ current_page \in 0..(WantedPages(total_reasons) - 1)
        /\ total_reasons > 0 =>
              /\ 15 * current_page < total_reasons
              /\ Cardinality(DOMAIN reason_checkbox) \in 1..15
              /\ Cardinality(DOMAIN reason_checkbox) =
                     (IF total_reasons - 15 * current_page < 15
                      THEN total_reasons - 15 * current_page ELSE 15)

\* a search typed on the second page left two reasons: the page is the first
C29_Witness ==
    /\ lastOp.op = "search" /\ lastOp.idx = 1
    /\ total_reasons = 2
    /\ current_page = 0
    /\ DOMAIN reason_checkbox = {"2001", "2002"}

\* user, assistant, user, assistant, ...
Alternates(history) ==
    /\ Len(history) % 2 = 0
    /\ \A i \in 1..Len(history) :
          history[i].role = (IF i % 2 = 1 THEN "user" ELSE "assistant")

\* the store but for the chat history
StoreButChat ==
    <<entries, hierarchy_timezone, callout_types, job_classifications, responses,
      has_reasons_state, selected_callout_reasons, default_callout_reason,
      has_event_types, event_types>>

\* C30: the chat history has even length and alternates user, assistant; an
\* Ask or a Get Help appends one user message and one assistant message, the
\* reply or a string beginning with "Error:" when the completion call
\* failed, and leaves the rest of the store alone; an Ask with an empty
\* question appends nothing; Clear Chat History empties the history.
C30_ChatAlternates ==
    [][/\ Alternates(chat_history) /\ Alternates(chat_history')
       /\ lastOp'.op \in {"ask", "get_help"} =>
             /\ Len(chat_history') = Len(chat_history) + 2
             /\ SubSeq(chat_history', 1, Len(chat_history)) = chat_history
             /\ lastOp'.arg # "ok" =>
                   StartsWith(chat_history'[Len(chat_history')].content, "Error:")
             /\ lastOp'.arg = "ok" =>
                   chat_history'[Len(chat_history')].content = "Four levels."
             /\ StoreButChat' = StoreButChat
       /\ lastOp'.op = "ask_empty" => storeVars' = storeVars
       /\ lastOp'.op = "clear_chat" =>
             chat_history' = <<>> /\ StoreButChat' = StoreButChat]_vars

\* a help request whose completion call failed, after an answered question
C30_Witness ==
    /\ lastOp.op = "get_help" /\ lastOp.arg = "create_raises"
    /\ Len(chat_history) = 4
    /\ chat_history[1].content = "How many levels?"
    /\ chat_history[3].content = "Help with Notes"
    /\ chat_history[4].content = "Error: Connection error."


====
